---- MODULE Spec2Model ----
(***************************************************************************)
(* A model of the synchronization core of crazy-7s: the card codec         *)
(* (src/src/card.rs), the deck (src/src/deck.rs), the turn state           *)
(* (src/src/info.rs), the event protocol and its handlers                  *)
(* (src/src/network.rs) and the local action guards                        *)
(* (src/src/game_ui/board.rs, src/src/game_ui/hand.rs,                     *)
(* src/src/screens/wild.rs, src/src/screens/win.rs).                       *)
(*                                                                         *)
(* Every peer is one process running the same systems.  A packet is the    *)
(* sequence of its bytes; a PeerId is the sequence of its 16 bytes.        *)
(***************************************************************************)
EXTENDS Integers, Sequences, FiniteSets, TLC

VARIABLES
    peers,      \* peers[p]: the resources of process p (deck, hand, discard pile,
                \* game info, opponents, peer names, screen states, pending events)
    socket,     \* socket[<<from, to>>]: packets in flight on one connection, in order
    room,       \* the processes connected to the room
    moves,      \* number of inputs taken so far: mouse releases, foreign packets
    codec       \* scratch cell of the codec specification

vars == <<peers, socket, room, moves, codec>>

gameVars == <<peers, socket, room, moves>>

(***************************************************************************)
(* Bounds of the model.                                                    *)
(***************************************************************************)
\* Mouse actions (draw, play, color choice, play again) in one behaviour.
MaxMoves == 4

\* Packets one call of receive_messages finds pending.
MaxBatch == 2

(***************************************************************************)
(* Plain helpers.                                                          *)
(***************************************************************************)
\* Option<T>: None is the empty sequence, Some(x) is <<x>>.
None == <<>>

Some(x) == <<x>>

Bytes == 0..255

\* u8 arithmetic of a release build (wrapping).
U8(x) == x % 256

Min(a, b) == IF a < b THEN a ELSE b

Range(s) == {s[i] : i \in 1..Len(s)}

Reverse(s) == [i \in 1..Len(s) |-> s[Len(s) + 1 - i]]

\* slice::rotate_left(k) for 0 <= k <= Len(s)
RotateLeft(s, k) == [i \in 1..Len(s) |-> s[((i - 1 + k) % Len(s)) + 1]]

NoDuplicates(s) == \A i, j \in 1..Len(s) : s[i] = s[j] => i = j

\* Iterator::position, 1-based: the first index holding x, 0 for None.
Position(s, x) ==
    IF \E i \in 1..Len(s) : s[i] = x
    THEN CHOOSE i \in 1..Len(s) : s[i] = x /\ \A j \in 1..(i - 1) : s[j] # x
    ELSE 0

(***************************************************************************)
(* Card codec: src/src/card.rs                                             *)
(***************************************************************************)
CardColors == <<"Red", "Yellow", "Green", "Blue">>

CardValues == <<"Zero", "One", "Two", "Three", "Four", "Five", "Six", "Seven",
                "Eight", "Nine", "Skip", "Reverse", "DrawTwo">>

Card(color, value, iteration) ==
    [color |-> color, value |-> value, iteration |-> iteration]

\* impl Into<u8> for CardColor
CardColorIntoU8(color) ==
    CASE color = "Red" -> 0
      [] color = "Yellow" -> 1
      [] color = "Green" -> 2
      [] color = "Blue" -> 3
      [] color = "Wild" -> 4

\* impl From<u8> for CardColor; "panic" stands for panic!("Invalid card color")
CardColorFromU8(b) ==
    CASE b = 0 -> "Red"
      [] b = 1 -> "Yellow"
      [] b = 2 -> "Green"
      [] b = 3 -> "Blue"
      [] b = 4 -> "Wild"
      [] OTHER -> "panic"

CardValueNumber(value) ==
    CASE value = "Zero" -> 0
      [] value = "One" -> 1
      [] value = "Two" -> 2
      [] value = "Three" -> 3
      [] value = "Four" -> 4
      [] value = "Five" -> 5
      [] value = "Six" -> 6
      [] value = "Seven" -> 7
      [] value = "Eight" -> 8
      [] value = "Nine" -> 9
      [] value = "Skip" -> 10
      [] value = "Reverse" -> 11
      [] value = "DrawTwo" -> 12

\* A plausible slip in the encoder: the second copies offset by 51 instead of 52.
CardIntoU8_OffBy(card) ==
    IF card.color = "Wild"
    THEN U8(104 + card.iteration)
    ELSE U8((CardColorIntoU8(card.color) * 13 + CardValueNumber(card.value))
            + U8(U8(card.iteration - 1) * 51))

\* impl Into<u8> for Card
CardIntoU8(card) ==
    IF card.color = "Wild"
    THEN U8(104 + card.iteration)
    ELSE U8((CardColorIntoU8(card.color) * 13 + CardValueNumber(card.value))
            + U8(U8(card.iteration - 1) * 52))

\* A decoder that takes every regular byte for a first copy.
CardFromU8_FirstCopy(b) ==
    IF b >= 104 THEN Card("Wild", "Seven", b - 104)
    ELSE LET v == IF b <= 51 THEN b ELSE b - 52
         IN  Card(CardColors[(v \div 13) + 1], CardValues[(v % 13) + 1], 1)

\* impl From<u8> for Card
CardFromU8(b) ==
    IF b >= 104 THEN Card("Wild", "Seven", b - 104)
    ELSE LET v == IF b <= 51 THEN b ELSE b - 52
             it == IF b <= 51 THEN 1 ELSE 2
         IN  Card(CardColors[(v \div 13) + 1], CardValues[(v % 13) + 1], it)

\* Card::can_play_on
can_play_on(self, card) ==
    /\ (self.color = card.color \/ self.value = card.value \/ self.color = "Wild")
    /\ card.color # "Wild"

(***************************************************************************)
(* Deck: src/src/deck.rs                                                   *)
(***************************************************************************)
\* The values of the regular deck, in the order of the array literal (no Seven).
RegularValues == <<"Zero", "One", "Two", "Three", "Four", "Five", "Six",
                   "Eight", "Nine", "Skip", "Reverse", "DrawTwo">>

\* Deck::default_cards with the sevens left in: 104 regular cards.
default_cards_WithSevens ==
    [k \in 1..(4 * 13 * 2) |->
        Card(CardColors[((k - 1) \div 26) + 1],
             CardValues[(((k - 1) % 26) \div 2) + 1],
             ((k - 1) % 2) + 1)]
    \o [i \in 1..4 |-> Card("Wild", "Seven", i - 1)]

\* Deck::default_cards
default_cards ==
    [k \in 1..(4 * 12 * 2) |->
        Card(CardColors[((k - 1) \div 24) + 1],
             RegularValues[(((k - 1) % 24) \div 2) + 1],
             ((k - 1) % 2) + 1)]
    \o [i \in 1..4 |-> Card("Wild", "Seven", i - 1)]

\* Deck::new
DeckNew == default_cards

\* Deck::get_card_order
get_card_order(cards) == [i \in 1..Len(cards) |-> CardIntoU8(cards[i])]

\* load_from that reads the order back to front.
load_from_Reversed(bytes) == [i \in 1..Len(bytes) |-> CardFromU8(bytes[Len(bytes) + 1 - i])]

\* Deck::load_from
load_from(bytes) == [i \in 1..Len(bytes) |-> CardFromU8(bytes[i])]

\* A draw that takes its cards off the front of the deck.
DrawCards_Front(cards, n) ==
    LET k == IF n <= 0 THEN 0 ELSE Min(n, Len(cards))
    IN  [i \in 1..k |-> cards[i]]

\* Deck::draw: the cards returned, in the order they are popped off the end.
DrawCards(cards, n) ==
    LET k == IF n <= 0 THEN 0 ELSE Min(n, Len(cards))
    IN  [i \in 1..k |-> cards[Len(cards) + 1 - i]]

\* Deck::draw: the cards left in the deck.
DrawRest(cards, n) ==
    LET k == IF n <= 0 THEN 0 ELSE Min(n, Len(cards))
    IN  SubSeq(cards, 1, Len(cards) - k)

\* Deck::shuffle: the random source may produce any permutation; the model
\* draws from ShuffleKinds of them.
ShuffleKinds == 3

Shuffles(cards) ==
    IF Len(cards) = 0 THEN {cards}
    ELSE {cards, Reverse(cards)}
         \cup {RotateLeft(cards, k % Len(cards)) : k \in 1..(ShuffleKinds - 2)}

(***************************************************************************)
(* Processes and their resources.                                          *)
(***************************************************************************)
Procs == {1, 2, 3}

\* The process that created the room (ServerState::Server): it alone is
\* shown the Start and Play Again buttons.
Host == 1

\* Bytes of a PeerId (a Uuid).
PeerIdLen == 16

\* socket.id() of process p.
Pid(p) == [i \in 1..PeerIdLen |-> p]

\* Username of process p, as the bytes of its Name packet.
Username(p) == <<85, 48 + p>>

\* String::from("Unknown"), as bytes
UnknownName == <<85, 110, 107, 110, 111, 119, 110>>

Panic(s) == [s EXCEPT !.crashed = TRUE]

SendEvent(s, e) == [s EXCEPT !.events = Append(s.events, e)]

\* `error!(...)`: the message joins what the process has reported so far.
Report(s, message) == [s EXCEPT !.log = @ \cup {message}]

(***************************************************************************)
(* Turn state: src/src/info.rs                                             *)
(***************************************************************************)
\* A reset that forgets the direction of play.
GameInfoReset_KeepDirection(s) ==
    [s EXCEPT !.current_player = None, !.order = <<>>]

\* GameInfo::reset
GameInfoReset(s) ==
    [s EXCEPT !.current_player = None, !.order = <<>>, !.direction = "Clockwise"]

\* An advance_turn that steps forward whatever the direction.
advance_turn_Forward(s) ==
    IF s.crashed \/ s.current_player = None THEN s
    ELSE LET idx == Position(s.order, s.current_player[1])
         IN  IF idx = 0 THEN Panic(s)
             ELSE [s EXCEPT !.current_player = Some(s.order[(idx % Len(s.order)) + 1])]

\* GameInfo::advance_turn (Option::unwrap panics when the current player
\* is not in the order)
advance_turn(s) ==
    IF s.crashed \/ s.current_player = None THEN s
    ELSE LET idx == Position(s.order, s.current_player[1])
             n == Len(s.order)
             next_index == IF s.direction = "Clockwise"
                           THEN ((idx - 1) + 1) % n
                           ELSE ((idx - 1) + n - 1) % n
         IN  IF idx = 0 THEN Panic(s)
             ELSE [s EXCEPT !.current_player = Some(s.order[next_index + 1])]

\* The value advance_turn returns: `self.current_player = next_player; next_player`
advance_turn_returned(s) == advance_turn(s).current_player

\* GameInfo::swap_direction
swap_direction(s) ==
    [s EXCEPT !.direction = IF s.direction = "Clockwise"
                            THEN "CounterClockwise" ELSE "Clockwise"]

\* The builds of the program: overflow checks on (debug) or off (release).
Builds == {"debug", "release"}

CountOf(opps, id) ==
    LET k == Position([i \in 1..Len(opps) |-> opps[i].id], id)
    IN  IF k = 0 THEN None ELSE Some(opps[k].card_count)

\* `for opponent in opponents.0.iter_mut() { if opponent.id == id {
\*      opponent.card_count += n; break } }` in usize arithmetic.
\* A count c < 0 stands for 2^64 + c, the value a release build wraps to;
\* a debug build panics on the overflow instead.
AddCount(s, id, n, build) ==
    LET k == Position([i \in 1..Len(s.opponents) |-> s.opponents[i].id], id)
        c == s.opponents[k].card_count
        overflows == (c >= 0 /\ c + n < 0) \/ (c < 0 /\ c + n >= 0)
    IN  IF s.crashed \/ k = 0 THEN s
        ELSE IF overflows /\ build = "debug" THEN Panic(s)
        ELSE [s EXCEPT !.opponents[k].card_count = c + n]

(***************************************************************************)
(* Effects, reset and dealing: src/src/network.rs                          *)
(***************************************************************************)
\* A handle_card_effect in which a Skip card skips nobody.
handle_card_effect_NoSkip(s, own_pid, card, card_player, build) ==
    IF s.crashed THEN s
    ELSE CASE card.value = "Skip" -> s
           [] card.value = "Reverse" -> advance_turn(advance_turn(swap_direction(s)))
           [] card.value = "DrawTwo" ->
                IF s.current_player = None THEN Panic(s)
                ELSE LET next_player == s.current_player[1]
                         cards == DrawCards(s.deck, 2)
                     IN  IF next_player = card_player THEN s
                         ELSE IF next_player = own_pid
                         THEN IF cards = <<>> THEN s
                              ELSE [s EXCEPT !.deck = DrawRest(s.deck, 2),
                                             !.main_player = s.main_player \o cards]
                         ELSE LET t == AddCount(s, next_player, 2, build)
                              IN  IF t.crashed THEN t
                                  ELSE [t EXCEPT !.deck = DrawRest(s.deck, 2)]
           [] OTHER -> s

\* A handle_card_effect in which a Reverse card turns the direction and
\* advances once.
handle_card_effect_ReverseOnce(s, own_pid, card, card_player, build) ==
    IF s.crashed THEN s
    ELSE CASE card.value = "Skip" -> advance_turn(s)
           [] card.value = "Reverse" -> advance_turn(swap_direction(s))
           [] card.value = "DrawTwo" ->
                IF s.current_player = None THEN Panic(s)
                ELSE LET next_player == s.current_player[1]
                         cards == DrawCards(s.deck, 2)
                     IN  IF next_player = card_player THEN s
                         ELSE IF next_player = own_pid
                         THEN IF cards = <<>> THEN s
                              ELSE [s EXCEPT !.deck = DrawRest(s.deck, 2),
                                             !.main_player = s.main_player \o cards]
                         ELSE LET t == AddCount(s, next_player, 2, build)
                              IN  IF t.crashed THEN t
                                  ELSE [t EXCEPT !.deck = DrawRest(s.deck, 2)]
           [] OTHER -> s

\* A handle_card_effect that counts the two cards of an opponent and leaves
\* the local deck as it is.
handle_card_effect_NoDraw(s, own_pid, card, card_player, build) ==
    IF s.crashed THEN s
    ELSE CASE card.value = "Skip" -> advance_turn(s)
           [] card.value = "Reverse" -> advance_turn(advance_turn(swap_direction(s)))
           [] card.value = "DrawTwo" ->
                IF s.current_player = None THEN Panic(s)
                ELSE LET next_player == s.current_player[1]
                         cards == DrawCards(s.deck, 2)
                     IN  IF next_player = card_player THEN s
                         ELSE IF next_player = own_pid
                         THEN IF cards = <<>> THEN s
                              ELSE [s EXCEPT !.deck = DrawRest(s.deck, 2),
                                             !.main_player = s.main_player \o cards]
                         ELSE AddCount(s, next_player, 2, build)
           [] OTHER -> s

\* handle_card_effect
handle_card_effect(s, own_pid, card, card_player, build) ==
    IF s.crashed THEN s
    ELSE CASE card.value = "Skip" -> advance_turn(s)
           [] card.value = "Reverse" -> advance_turn(advance_turn(swap_direction(s)))
           [] card.value = "DrawTwo" ->
                IF s.current_player = None THEN Panic(s)
                ELSE LET next_player == s.current_player[1]
                         cards == DrawCards(s.deck, 2)
                     IN  IF next_player = card_player THEN s
                         ELSE IF next_player = own_pid
                         THEN IF cards = <<>> THEN s
                              ELSE [s EXCEPT !.deck = DrawRest(s.deck, 2),
                                             !.main_player = s.main_player \o cards]
                         ELSE LET t == AddCount(s, next_player, 2, build)
                              IN  IF t.crashed THEN t
                                  ELSE [t EXCEPT !.deck = DrawRest(s.deck, 2)]
           [] OTHER -> s

\* reset_game_state
reset_game_state(s) ==
    [GameInfoReset(s) EXCEPT
        !.main_player = <<>>,
        !.discard_pile = <<>>,
        !.opponents = [i \in 1..Len(s.opponents) |->
                          [s.opponents[i] EXCEPT !.card_count = 5]],
        !.game_screen_state = "Game"]

\* An initialize_game_start that deals every seat the first five cards.
initialize_game_start_SameHand(s, our_pid) ==
    LET our_position == Position(s.order, our_pid) - 1
        dealt == DrawRest(s.deck, 5 * Len(s.order))
        first == DrawCards(dealt, 1)
        after_first == DrawRest(dealt, 1)
        second == DrawCards(after_first, 1)
    IN  IF s.crashed THEN s
        ELSE IF our_position < 0 \/ Len(s.deck) < 5 \/ first = <<>> THEN Panic(s)
        ELSE IF first[1].color = "Wild" /\ second = <<>> THEN Panic(s)
        ELSE [s EXCEPT
                !.main_player = SubSeq(s.deck, 1, 5),
                !.deck = IF first[1].color = "Wild" THEN DrawRest(after_first, 1)
                         ELSE after_first,
                !.discard_pile = IF first[1].color = "Wild"
                                 THEN s.discard_pile \o <<first[1], second[1]>>
                                 ELSE Append(s.discard_pile, first[1]),
                !.screen_state = "Game"]

\* initialize_game_start: `expect` and the slice index panic
initialize_game_start(s, our_pid) ==
    LET our_position == Position(s.order, our_pid) - 1
        dealt == DrawRest(s.deck, 5 * Len(s.order))
        first == DrawCards(dealt, 1)
        after_first == DrawRest(dealt, 1)
        second == DrawCards(after_first, 1)
    IN  IF s.crashed THEN s
        ELSE IF our_position < 0 THEN Panic(s)
        ELSE IF Len(s.deck) < (our_position + 1) * 5 THEN Panic(s)
        ELSE IF first = <<>> THEN
            Panic([s EXCEPT !.main_player =
                       SubSeq(s.deck, our_position * 5 + 1, (our_position + 1) * 5),
                            !.deck = dealt])
        ELSE IF first[1].color = "Wild" /\ second = <<>> THEN
            Panic([s EXCEPT !.main_player =
                       SubSeq(s.deck, our_position * 5 + 1, (our_position + 1) * 5),
                            !.deck = after_first,
                            !.discard_pile = Append(s.discard_pile, first[1])])
        ELSE [s EXCEPT
                !.main_player = SubSeq(s.deck, our_position * 5 + 1, (our_position + 1) * 5),
                !.deck = IF first[1].color = "Wild" THEN DrawRest(after_first, 1)
                         ELSE after_first,
                !.discard_pile = IF first[1].color = "Wild"
                                 THEN s.discard_pile \o <<first[1], second[1]>>
                                 ELSE Append(s.discard_pile, first[1]),
                !.screen_state = "Game"]

(***************************************************************************)
(* Event protocol: src/src/network.rs                                      *)
(***************************************************************************)
\* impl Into<u8> for SocketEvent
SocketEventIntoU8(event) ==
    CASE event = "Start" -> 0
      [] event = "Draw" -> 1
      [] event = "Play" -> 2
      [] event = "Restart" -> 3
      [] event = "Name" -> 4
      [] event = "Wild" -> 5

\* A decoder of the event kind that wraps the byte into the six kinds.
SocketEventTryFromU8_Wrapped(value) ==
    CASE value % 6 = 0 -> "Start"
      [] value % 6 = 1 -> "Draw"
      [] value % 6 = 2 -> "Play"
      [] value % 6 = 3 -> "Restart"
      [] value % 6 = 4 -> "Name"
      [] value % 6 = 5 -> "Wild"

\* impl TryFrom<u8> for SocketEvent
SocketEventTryFromU8(value) ==
    CASE value = 0 -> "Start"
      [] value = 1 -> "Draw"
      [] value = 2 -> "Play"
      [] value = 3 -> "Restart"
      [] value = 4 -> "Name"
      [] value = 5 -> "Wild"
      [] OTHER -> "InvalidByte"

\* The Start/Restart packet handle_start_game builds.
StartPacket(restart, player_order, cards) ==
    <<SocketEventIntoU8(IF restart THEN "Restart" ELSE "Start"), U8(Len(player_order))>>
    \o [i \in 1..(PeerIdLen * Len(player_order)) |->
            player_order[((i - 1) \div PeerIdLen) + 1][((i - 1) % PeerIdLen) + 1]]
    \o get_card_order(cards)

\* The player order a receiver reads from a Start/Restart packet of at least
\* two bytes: None when the packet runs out of bytes.
PacketOrder(packet) ==
    LET player_count == packet[2]
    IN  IF Len(packet) < 2 + PeerIdLen * player_count THEN None
        ELSE Some([k \in 1..player_count |->
                      SubSeq(packet, 3 + PeerIdLen * (k - 1), 2 + PeerIdLen * k)])

\* The bytes after the player order: `&packet[packet_pos..]`.
PacketDeckBytes(packet) ==
    SubSeq(packet, 3 + PeerIdLen * packet[2], Len(packet))

\* An Opponent table that gives the local player a seat as well.
LoadOpponents_WithSelf(s, own_pid, player_order) ==
    [i \in 1..Len(player_order) |->
        [id |-> player_order[i],
         name |-> IF player_order[i] \in DOMAIN s.peer_names
                  THEN s.peer_names[player_order[i]] ELSE UnknownName,
         card_count |-> 5]]

\* `opponents.0 = order.iter().filter_map(...).collect()`
LoadOpponents(s, own_pid, player_order) ==
    LET others == SelectSeq(player_order, LAMBDA pid : pid # own_pid)
    IN  [i \in 1..Len(others) |->
            [id |-> others[i],
             name |-> IF others[i] \in DOMAIN s.peer_names
                      THEN s.peer_names[others[i]] ELSE UnknownName,
             card_count |-> 5]]

Continue(s) == [s |-> s, stop |-> s.crashed]

Return(s) == [s |-> s, stop |-> TRUE]

\* receive_messages, SocketEvent::Start | SocketEvent::Restart
ReceiveStart(s, own_pid, event, packet) ==
    LET r == IF event = "Restart" THEN reset_game_state(s) ELSE s
        parsed == PacketOrder(packet)
        player_order == parsed[1]
        loaded == [r EXCEPT
                     !.opponents = LoadOpponents(r, own_pid, player_order),
                     !.order = player_order,
                     !.current_player = IF player_order = <<>> THEN None
                                        ELSE Some(player_order[1]),
                     !.deck = load_from(PacketDeckBytes(packet))]
    IN  IF Len(packet) < 2 THEN Continue(Panic(r))
        ELSE IF parsed = None
        THEN Return(Report(r, "Invalid start game packet: ran out of bytes."))
        ELSE Continue(initialize_game_start(loaded, own_pid))

\* receive_messages, SocketEvent::Draw
ReceiveDraw(s, own_pid, peer, build) ==
    Continue(advance_turn(
        AddCount([s EXCEPT !.deck = DrawRest(s.deck, 1)], peer, 1, build)))

\* A Play arm that leaves the count of the sender as it is.
ReceivePlay_KeepCount(s, own_pid, peer, packet, build) ==
    LET card == CardFromU8(packet[2])
        pushed == [s EXCEPT !.discard_pile = Append(s.discard_pile, card)]
    IN  IF Len(packet) < 2 THEN Continue(Panic(s))
        ELSE Continue(handle_card_effect(advance_turn(pushed), own_pid, card, peer, build))

\* receive_messages, SocketEvent::Play
ReceivePlay(s, own_pid, peer, packet, build) ==
    LET card == CardFromU8(packet[2])
        pushed == [s EXCEPT !.discard_pile = Append(s.discard_pile, card)]
        counted == AddCount(pushed, peer, -1, build)
        won == IF ~counted.crashed /\ CountOf(counted.opponents, peer) = Some(0)
               THEN SendEvent(counted, [type |-> "Win", id |-> peer])
               ELSE counted
    IN  IF Len(packet) < 2 THEN Continue(Panic(s))
        ELSE Continue(handle_card_effect(advance_turn(won), own_pid, card, peer, build))

\* receive_messages, SocketEvent::Name
ReceiveName(s, peer, packet) ==
    Continue([s EXCEPT !.peer_names =
                 [q \in DOMAIN s.peer_names \cup {peer} |->
                     IF q = peer THEN SubSeq(packet, 2, Len(packet))
                     ELSE s.peer_names[q]]])

\* A Wild arm that recolours the top card where it lies.
ReceiveWild_Recolour(s, packet) ==
    IF Len(packet) < 2 THEN Continue(Panic(s))
    ELSE IF CardColorFromU8(packet[2]) = "panic" THEN Continue(Panic(s))
    ELSE IF s.discard_pile = <<>> THEN Continue(Panic(s))
    ELSE Continue([s EXCEPT !.discard_pile[Len(s.discard_pile)].color =
                                CardColorFromU8(packet[2])])

\* receive_messages, SocketEvent::Wild
ReceiveWild(s, packet) ==
    IF Len(packet) < 2 THEN Continue(Panic(s))
    ELSE IF CardColorFromU8(packet[2]) = "panic" THEN Continue(Panic(s))
    ELSE IF s.discard_pile = <<>> THEN Continue(Panic(s))
    ELSE Continue([s EXCEPT !.discard_pile = Append(s.discard_pile,
            [s.discard_pile[Len(s.discard_pile)] EXCEPT
                !.color = CardColorFromU8(packet[2])])])

\* The body of the loop `for (peer, packet) in socket.receive()`: the
\* resources after one packet, and whether the system returned.
ReceivePacket(s, own_pid, peer, packet, build) ==
    LET event == IF packet = <<>> THEN "InvalidByte"
                 ELSE SocketEventTryFromU8(packet[1])
    IN  CASE event = "InvalidByte" ->
                IF packet = <<>> THEN Return(s)
                ELSE Return(Report(s, "Received invalid event code"))
          [] event \in {"Start", "Restart"} -> ReceiveStart(s, own_pid, event, packet)
          [] event = "Draw" -> ReceiveDraw(s, own_pid, peer, build)
          [] event = "Play" -> ReceivePlay(s, own_pid, peer, packet, build)
          [] event = "Name" -> ReceiveName(s, peer, packet)
          [] event = "Wild" -> ReceiveWild(s, packet)

(***************************************************************************)
(* Local systems, as functions of one process's resources.                 *)
(***************************************************************************)
Top(pile) == pile[Len(pile)]

EventsOf(s, type) == SelectSeq(s.events, LAMBDA e : e.type = type)

\* The events left once a reader has read every event of its type.
ReadAll(s, type) == [s EXCEPT !.events = SelectSeq(s.events, LAMBDA e : e.type # type)]

\* The events left once a reader has read `events.read().next()`.
ReadNext(s, type) ==
    LET k == Position([i \in 1..Len(s.events) |-> s.events[i].type], type)
    IN  [s EXCEPT !.events = [i \in 1..(Len(s.events) - 1) |->
                                 IF i < k THEN s.events[i] ELSE s.events[i + 1]]]

\* Vec::remove(index), 1-based
RemoveAt(cards, index) ==
    [i \in 1..(Len(cards) - 1) |-> IF i < index THEN cards[i] ELSE cards[i + 1]]

\* The checks of draw_card between the mouse release and the draw.
DrawGuard(s, own_id) ==
    /\ s.discard_pile = <<>> \/ Top(s.discard_pile).color # "Wild"
    /\ s.current_player = Some(own_id)
    /\ ~(s.deck = <<>>)

\* draw_card that forgets whose turn it is.
DrawCardClick_NoTurnCheck(s, own_id) ==
    IF (s.discard_pile = <<>> \/ Top(s.discard_pile).color # "Wild") /\ ~(s.deck = <<>>)
    THEN SendEvent([s EXCEPT !.deck = DrawRest(s.deck, 1),
                             !.main_player = Append(s.main_player, DrawCards(s.deck, 1)[1])],
                   [type |-> "DrawCard"])
    ELSE s

\* draw_card, once the draw pile is hovered and the mouse released
DrawCardClick(s, own_id) ==
    IF DrawGuard(s, own_id)
    THEN SendEvent([s EXCEPT !.deck = DrawRest(s.deck, 1),
                             !.main_player = Append(s.main_player, DrawCards(s.deck, 1)[1])],
                   [type |-> "DrawCard"])
    ELSE s

\* The checks of handle_card_click on the hovered hand card.
PlayGuard(s, own_id, card) ==
    /\ s.current_player = Some(own_id)
    /\ s.discard_pile = <<>> \/ can_play_on(card, Top(s.discard_pile))

\* handle_card_click, once a hand card is hovered and the mouse released
CardClick(s, own_id, card) ==
    IF PlayGuard(s, own_id, card)
    THEN LET played == [s EXCEPT
                           !.main_player = RemoveAt(s.main_player, Position(s.main_player, card)),
                           !.discard_pile = Append(s.discard_pile, card)]
             wild == IF card.color = "Wild" THEN SendEvent(played, [type |-> "Wild"])
                     ELSE played
         IN  SendEvent(wild, [type |-> "PlayCard", card |-> card])
    ELSE s

\* The body of the loop of handle_play_card for one PlayCard event.
PlayCardEvent(s, own_pid, card, build) ==
    LET t == handle_card_effect(advance_turn(s), own_pid, card, own_pid, build)
    IN  IF ~t.crashed /\ t.main_player = <<>>
        THEN SendEvent(t, [type |-> "Win", id |-> own_pid])
        ELSE t

RECURSIVE PlayCardEvents(_, _, _, _)
PlayCardEvents(s, own_pid, evs, build) ==
    IF evs = <<>> \/ s.crashed THEN s
    ELSE PlayCardEvents(PlayCardEvent(s, own_pid, evs[1].card, build),
                        own_pid, Tail(evs), build)

\* A colour choice that leaves the selection screen open.
WildChoice_Stay(s, color) ==
    IF s.discard_pile = <<>> THEN Panic(s)
    ELSE SendEvent([s EXCEPT
                       !.discard_pile = Append(s.discard_pile,
                                               [Top(s.discard_pile) EXCEPT !.color = color])],
                   [type |-> "WildColor", color |-> color])

\* handle_action of the wild screen: the chosen color goes on a copy of the top card
WildChoice(s, color) ==
    IF s.discard_pile = <<>> THEN Panic(s)
    ELSE SendEvent([s EXCEPT
                       !.discard_pile = Append(s.discard_pile,
                                               [Top(s.discard_pile) EXCEPT !.color = color]),
                       !.game_screen_state = "Game"],
                   [type |-> "WildColor", color |-> color])

\* A reclaim that leaves the wild cards the colour they were given.
Reclaimed_KeepColour(s) ==
    LET len == Len(s.discard_pile)
    IN  [s EXCEPT !.discard_pile = <<s.discard_pile[len]>>,
                  !.deck = s.deck \o SubSeq(s.discard_pile, 1, len - 1)]

\* shuffle_discard_pile before the shuffle: all but the top discard card go
\* back under the deck, the cards of value Seven uncolored.
Reclaimed(s) ==
    LET len == Len(s.discard_pile)
        cards == [i \in 1..(len - 1) |->
                     IF s.discard_pile[i].value = "Seven"
                     THEN [s.discard_pile[i] EXCEPT !.color = "Wild"]
                     ELSE s.discard_pile[i]]
    IN  [s EXCEPT !.discard_pile = <<s.discard_pile[len]>>, !.deck = s.deck \o cards]

(***************************************************************************)
(* The network.                                                            *)
(***************************************************************************)
Channels == {c \in Procs \X Procs : c[1] # c[2]}

\* socket.connected_peers() of process p: the other processes of the room
\* that are still running.
ConnectedPeers(p) == {q \in room \ {p} : ~peers[q].crashed}

\* `for peer in socket.connected_peers() { socket.send(packet.clone(), peer) }`
\* for each packet of pkts in turn.
Broadcast(p, pkts) ==
    [c \in Channels |->
        IF c[1] = p /\ c[2] \in ConnectedPeers(p) THEN socket[c] \o pkts ELSE socket[c]]

\* Game systems run while the process is alive and its socket exists.
Running(p) == p \in room /\ ~peers[p].crashed

\* Systems under run_if(in_state(ScreenState::Game)) and
\* run_if(in_state(GameScreenState::Game)).
InGame(p) ==
    /\ Running(p)
    /\ peers[p].screen_state = "Game"
    /\ peers[p].game_screen_state = "Game"

\* A mouse release is handled in a frame of its own: the events of the
\* frame before have been read by then.
MouseReleased(p) == peers[p].events = <<>> /\ moves < MaxMoves

Moved(p) == IF peers'[p] = peers[p] THEN moves ELSE moves + 1

(***************************************************************************)
(* The systems, one action each.                                           *)
(***************************************************************************)
\* A lobby that pushes the own id on the order twice.
LobbyPeers_Twice(p) ==
    [i \in 1..Cardinality(ConnectedPeers(p)) |->
        Pid(CHOOSE q \in ConnectedPeers(p) :
                Cardinality({r \in ConnectedPeers(p) : r < q}) = i - 1)]
    \o <<Pid(p), Pid(p)>>

\* `socket.connected_peers().collect()` then `order.push(own_pid)`
LobbyPeers(p) ==
    [i \in 1..Cardinality(ConnectedPeers(p)) |->
        Pid(CHOOSE q \in ConnectedPeers(p) :
                Cardinality({r \in ConnectedPeers(p) : r < q}) = i - 1)]
    \o <<Pid(p)>>

\* menu/lobby.rs handle_action, ButtonAction::Start (the button of the host)
lobby_start(p) ==
    /\ p = Host /\ Running(p)
    /\ peers[p].screen_state = "Menu" /\ peers[p].events = <<>>
    /\ \E player_order \in Shuffles(LobbyPeers(p)) :
          peers' = [peers EXCEPT ![p] =
              SendEvent([@ EXCEPT !.opponents = LoadOpponents(peers[p], Pid(p), player_order)],
                        [type |-> "StartGame", order |-> player_order, restart |-> FALSE])]
    /\ UNCHANGED <<socket, room, moves, codec>>

\* network.rs handle_start_game
handle_start_game(p) ==
    /\ Running(p) /\ EventsOf(peers[p], "StartGame") # <<>>
    /\ LET event == EventsOf(peers[p], "StartGame")[1]
           s == [ReadNext(peers[p], "StartGame") EXCEPT
                    !.order = event.order,
                    !.current_player = IF event.order = <<>> THEN None
                                       ELSE Some(event.order[1])]
       IN  /\ peers' = [peers EXCEPT ![p] = initialize_game_start(s, Pid(p))]
           /\ socket' = Broadcast(p, <<StartPacket(event.restart, event.order, s.deck)>>)
    /\ UNCHANGED <<room, moves, codec>>

\* The senders of the packets one call of socket.receive() returns, in
\* arrival order: each connection delivers in order, connections interleave.
BatchShapes(p) ==
    {f \in UNION {[1..n -> Procs \ {p}] : n \in 1..MaxBatch} :
        \A q \in Procs \ {p} :
            Cardinality({i \in DOMAIN f : f[i] = q}) <= Len(socket[<<q, p>>])}

Batch(p, f) ==
    [i \in DOMAIN f |->
        [peer |-> Pid(f[i]),
         packet |-> socket[<<f[i], p>>][Cardinality({j \in 1..i : f[j] = f[i]})]]]

RECURSIVE ReceiveBatch(_, _, _, _)
ReceiveBatch(s, own_pid, batch, build) ==
    IF batch = <<>> THEN s
    ELSE LET r == ReceivePacket(s, own_pid, batch[1].peer, batch[1].packet, build)
         IN  IF r.stop THEN r.s ELSE ReceiveBatch(r.s, own_pid, Tail(batch), build)

\* network.rs receive_messages
receive_messages(p) ==
    /\ Running(p)
    /\ \E f \in BatchShapes(p), build \in Builds :
          /\ peers' = [peers EXCEPT ![p] = ReceiveBatch(@, Pid(p), Batch(p, f), build)]
          /\ socket' = [c \in Channels |->
                IF c[2] = p
                THEN SubSeq(socket[c], Cardinality({i \in DOMAIN f : f[i] = c[1]}) + 1,
                            Len(socket[c]))
                ELSE socket[c]]
    /\ UNCHANGED <<room, moves, codec>>

\* game_ui/board.rs draw_card
draw_card(p) ==
    /\ InGame(p) /\ MouseReleased(p)
    /\ peers' = [peers EXCEPT ![p] = DrawCardClick(@, Pid(p))]
    /\ moves' = Moved(p)
    /\ UNCHANGED <<socket, room, codec>>

RECURSIVE AdvanceTurns(_, _)
AdvanceTurns(s, n) == IF n = 0 THEN s ELSE AdvanceTurns(advance_turn(s), n - 1)

\* network.rs handle_draw_card
handle_draw_card(p) ==
    /\ Running(p) /\ EventsOf(peers[p], "DrawCard") # <<>>
    /\ LET n == Len(EventsOf(peers[p], "DrawCard"))
           s == ReadAll(peers[p], "DrawCard")
       IN  /\ peers' = [peers EXCEPT ![p] = AdvanceTurns(s, n)]
           /\ socket' = Broadcast(p, [i \in 1..n |-> <<SocketEventIntoU8("Draw")>>])
    /\ UNCHANGED <<room, moves, codec>>

\* game_ui/hand.rs handle_card_click
handle_card_click(p) ==
    /\ InGame(p) /\ MouseReleased(p)
    /\ \E card \in Range(peers[p].main_player) :
          peers' = [peers EXCEPT ![p] = CardClick(@, Pid(p), card)]
    /\ moves' = Moved(p)
    /\ UNCHANGED <<socket, room, codec>>

\* network.rs handle_play_card
handle_play_card(p) ==
    /\ Running(p) /\ EventsOf(peers[p], "PlayCard") # <<>>
    /\ LET evs == EventsOf(peers[p], "PlayCard")
       IN  /\ \E build \in Builds :
                 peers' = [peers EXCEPT ![p] =
                     PlayCardEvents(ReadAll(@, "PlayCard"), Pid(p), evs, build)]
           /\ socket' = Broadcast(p, [i \in 1..Len(evs) |->
                            <<SocketEventIntoU8("Play"), CardIntoU8(evs[i].card)>>])
    /\ UNCHANGED <<room, moves, codec>>

\* screens/wild.rs handle_wild
handle_wild(p) ==
    /\ Running(p) /\ peers[p].screen_state = "Game"
    /\ EventsOf(peers[p], "Wild") # <<>>
    /\ peers' = [peers EXCEPT ![p] =
          [ReadNext(@, "Wild") EXCEPT !.game_screen_state = "WildColor"]]
    /\ UNCHANGED <<socket, room, moves, codec>>

\* screens/wild.rs handle_action
wild_handle_action(p) ==
    /\ Running(p) /\ peers[p].game_screen_state = "WildColor" /\ MouseReleased(p)
    /\ \E i \in 1..Len(CardColors) :
          peers' = [peers EXCEPT ![p] = WildChoice(@, CardColors[i])]
    /\ moves' = Moved(p)
    /\ UNCHANGED <<socket, room, codec>>

\* network.rs handle_wild_color
handle_wild_color(p) ==
    /\ Running(p) /\ EventsOf(peers[p], "WildColor") # <<>>
    /\ LET evs == EventsOf(peers[p], "WildColor")
       IN  /\ peers' = [peers EXCEPT ![p] = ReadAll(@, "WildColor")]
           /\ socket' = Broadcast(p, [i \in 1..Len(evs) |->
                            <<SocketEventIntoU8("Wild"), CardColorIntoU8(evs[i].color)>>])
    /\ UNCHANGED <<room, moves, codec>>

\* game_ui/board.rs shuffle_discard_pile
shuffle_discard_pile(p) ==
    /\ InGame(p)
    /\ peers[p].deck = <<>> /\ Len(peers[p].discard_pile) > 1
    /\ \E shuffled \in Shuffles(Reclaimed(peers[p]).deck) :
          peers' = [peers EXCEPT ![p] = [Reclaimed(@) EXCEPT !.deck = shuffled]]
    /\ UNCHANGED <<socket, room, moves, codec>>

\* screens/win.rs handle_win
handle_win(p) ==
    /\ Running(p) /\ peers[p].screen_state = "Game"
    /\ EventsOf(peers[p], "Win") # <<>>
    /\ peers' = [peers EXCEPT ![p] =
          [ReadNext(@, "Win") EXCEPT !.game_screen_state = "Win"]]
    /\ UNCHANGED <<socket, room, moves, codec>>

\* screens/win.rs handle_action, ButtonAction::PlayAgain (the button of the host)
win_play_again(p) ==
    /\ p = Host /\ Running(p)
    /\ peers[p].game_screen_state = "Win" /\ MouseReleased(p)
    /\ peers' = [peers EXCEPT ![p] =
          SendEvent([@ EXCEPT !.game_screen_state = "Game"], [type |-> "RestartGame"])]
    /\ moves' = Moved(p)
    /\ UNCHANGED <<socket, room, codec>>

\* network.rs handle_restart_game (rotate_left(1) panics on an empty order)
handle_restart_game(p) ==
    /\ Running(p) /\ EventsOf(peers[p], "RestartGame") # <<>>
    /\ LET s == ReadNext(peers[p], "RestartGame")
       IN  peers' = [peers EXCEPT ![p] =
              IF s.order = <<>> THEN Panic(s)
              ELSE SendEvent(reset_game_state(s),
                             [type |-> "StartGame", order |-> RotateLeft(s.order, 1),
                              restart |-> TRUE])]
    /\ UNCHANGED <<socket, room, moves, codec>>

(***************************************************************************)
(* Initial states.                                                         *)
(***************************************************************************)
\* The rooms: the host and one or two more processes, all connected and
\* their Name packets exchanged.
Rooms == {{1, 2}, {1, 2, 3}}

\* The deck of the host when it starts the game.  The Deck resource is made
\* once, at startup, as a shuffle of Deck::new(), and lives as long as the
\* process: earlier games of the process have drawn from it.  The orders
\* below are the full deck in one shuffle and decks left by earlier games.
HostDeckOrders ==
    {get_card_order(Reverse(DeckNew)),
     <<1, 2, 10, 11, 4, 14, 15, 9, 62, 22, 16, 17, 18>>,
     <<10, 62, 11, 63, 1, 2, 3, 4, 5, 6, 14, 15, 16, 17, 18, 19, 20, 21, 22, 23, 27, 28, 8>>}

\* The deck of a process that has not hosted: its own startup shuffle.
StartupDeck(p) == RotateLeft(DeckNew, p)

Resources(p, members, cards) ==
    [deck |-> cards,
     main_player |-> <<>>,
     discard_pile |-> <<>>,
     current_player |-> None,
     order |-> <<>>,
     direction |-> "Clockwise",
     opponents |-> <<>>,
     peer_names |-> [pid \in {Pid(q) : q \in members \ {p}} |->
                        Username(CHOOSE q \in members : Pid(q) = pid)],
     screen_state |-> "Menu",
     game_screen_state |-> "Game",
     events |-> <<>>,
     log |-> {},
     crashed |-> FALSE]

CodecIdle == [stage |-> "idle"]

GameInit ==
    /\ room \in Rooms
    /\ \E o \in HostDeckOrders :
          peers = [p \in Procs |->
                      Resources(p, room, IF p = Host THEN load_from(o) ELSE StartupDeck(p))]
    /\ socket = [c \in Channels |-> <<>>]
    /\ moves = 0

Init == GameInit /\ codec = CodecIdle

\* A hand has five cards, so a win takes five plays: within MaxMoves no hand
\* empties, and the systems of the win screen (handle_win, win_play_again,
\* handle_restart_game) are left out of Next; RematchSpec runs them.
Next ==
    \E p \in Procs :
        \/ lobby_start(p)
        \/ handle_start_game(p)
        \/ receive_messages(p)
        \/ draw_card(p)
        \/ handle_draw_card(p)
        \/ handle_card_click(p)
        \/ handle_play_card(p)
        \/ handle_wild(p)
        \/ wild_handle_action(p)
        \/ handle_wild_color(p)
        \/ shuffle_discard_pile(p)

Spec == Init /\ [][Next]_vars

(***************************************************************************)
(* The room with a client that does not follow the protocol: it sends Play *)
(* packets carrying any byte, packets of no known kind and packets cut     *)
(* short.  No mouse is touched after the start.                            *)
(***************************************************************************)
\* Packets the foreign client sends in one behaviour.
MaxForeign == 2

\* The process running the foreign client: the first to join the host.
Foreign == Host + 1

\* The card bytes it sends: the last regular card, the first and last wild
\* card, the first byte past the wild cards, the largest byte.
ForeignBytes == {103, 104, 107, 108, 255}

foreign_play(p) ==
    /\ p = Foreign /\ Running(p) /\ peers[p].screen_state = "Game"
    /\ moves < MaxForeign
    /\ \E q \in ConnectedPeers(p), b \in ForeignBytes :
          socket' = [socket EXCEPT ![<<p, q>>] =
                        Append(@, <<SocketEventIntoU8("Play"), b>>)]
    /\ moves' = moves + 1
    /\ UNCHANGED <<peers, room, codec>>

\* A Start/Restart packet for two players that ends three bytes into the
\* second peer id.
CutStartPacket(restart) ==
    SubSeq(StartPacket(restart, <<Pid(Host), Pid(Foreign)>>, <<>>), 1, 2 + PeerIdLen + 3)

\* The other packets it sends: the empty packet, packets of no known kind,
\* packets that end after the kind byte, a Wild packet of no known color and
\* one of a known color, Start and Restart packets cut short.
ForeignPackets ==
    {<<>>, <<6>>, <<255, 0>>,
     <<SocketEventIntoU8("Play")>>,
     <<SocketEventIntoU8("Wild")>>,
     <<SocketEventIntoU8("Wild"), 9>>,
     <<SocketEventIntoU8("Wild"), CardColorIntoU8("Green")>>,
     <<SocketEventIntoU8("Start")>>,
     CutStartPacket(FALSE), CutStartPacket(TRUE)}

foreign_send(p) ==
    /\ p = Foreign /\ Running(p)
    /\ moves < MaxForeign
    /\ \E q \in ConnectedPeers(p), packet \in ForeignPackets :
          socket' = [socket EXCEPT ![<<p, q>>] = Append(@, packet)]
    /\ moves' = moves + 1
    /\ UNCHANGED <<peers, room, codec>>

WireNext ==
    \E p \in Procs :
        \/ lobby_start(p)
        \/ handle_start_game(p)
        \/ receive_messages(p)
        \/ foreign_play(p)
        \/ foreign_send(p)

WireSpec == Init /\ [][WireNext]_vars

(***************************************************************************)
(* The end of a game of two and the game after it.  The behaviours start   *)
(* in a game whose first player has played four Skip cards in a row and    *)
(* holds one more card, or in such a game that went on counter-clockwise   *)
(* after a Reverse card; every packet sent so far has been applied.        *)
(***************************************************************************)
\* The deck of the host when it started the game: the hand of the first
\* seat (five Skip cards), the hand of the second seat (a wild card among
\* them), a card to draw, the first discard card (Red Three) and the ten
\* cards the dealing throws away.
RematchDeckOrder ==
    <<10, 62, 23, 75, 36,  88, 49, 101, 104, 2,  4, 3,
      5, 6, 8, 9, 13, 14, 15, 16, 17, 18>>

\* The cards the first seat has played, in order.
RematchPlayed == <<10, 62, 23, 75>>

\* The deck of the host in a game that turns around: the first seat holds a
\* Reverse card and four Skip cards, the second seat a Red Two; the first
\* discard card is Red Three.
RematchTurnedDeckOrder ==
    <<11, 10, 62, 23, 75,  88, 49, 101, 104, 2,  4, 3,
      5, 6, 8, 9, 13, 14, 15, 16, 17, 18>>

\* The cards played in that game, in order: the Reverse card of the first
\* seat, the Red Two of the second seat, three Skip cards of the first seat.
RematchTurnedPlayed == <<11, 2, 10, 62, 23>>

\* The peers of the room once the host, its deck in the given order, has
\* pressed Start with the given seating order and its Start packet has been
\* applied by the other peer.
RematchStartedFrom(deck_order, player_order) ==
    LET other == CHOOSE q \in Procs : q = Host + 1
        host == Resources(Host, {Host, other}, load_from(deck_order))
        seated == [host EXCEPT
                      !.opponents = LoadOpponents(host, Pid(Host), player_order),
                      !.order = player_order,
                      !.current_player = Some(player_order[1])]
    IN  [p \in {Host, other} |->
            IF p = Host THEN initialize_game_start(seated, Pid(Host))
            ELSE ReceivePacket(Resources(p, {Host, other}, StartupDeck(p)), Pid(p),
                               Pid(Host), StartPacket(FALSE, player_order, host.deck),
                               "release").s]

RematchStarted(player_order) == RematchStartedFrom(RematchDeckOrder, player_order)

\* The peers after the current player p has clicked the card of byte b, its
\* PlayCard event has been handled and the Play packet applied by the others.
RematchPlay(st, b) ==
    LET card == CardFromU8(b)
    IN  [p \in DOMAIN st |->
            IF st[p].current_player = Some(Pid(p))
            THEN LET clicked == CardClick(st[p], Pid(p), card)
                 IN  PlayCardEvents(ReadAll(clicked, "PlayCard"), Pid(p),
                                    EventsOf(clicked, "PlayCard"), "release")
            ELSE LET q == CHOOSE q \in DOMAIN st : st[q].current_player = Some(Pid(q))
                 IN  ReceivePacket(st[p], Pid(p), Pid(q),
                                   <<SocketEventIntoU8("Play"), b>>, "release").s]

RECURSIVE RematchPlays(_, _)
RematchPlays(st, bytes) ==
    IF bytes = <<>> THEN st ELSE RematchPlays(RematchPlay(st, bytes[1]), Tail(bytes))

RematchInit ==
    /\ room = {Host, Host + 1}
    /\ \E player_order \in {<<Pid(Host), Pid(Host + 1)>>, <<Pid(Host + 1), Pid(Host)>>} :
          \E st \in {RematchPlays(RematchStarted(player_order), RematchPlayed),
                     RematchPlays(RematchStartedFrom(RematchTurnedDeckOrder, player_order),
                                  RematchTurnedPlayed)} :
              peers = [p \in Procs |->
                          IF p \in DOMAIN st THEN st[p]
                          ELSE Resources(p, room, StartupDeck(p))]
    /\ socket = [c \in Channels |-> <<>>]
    /\ moves = 0
    /\ codec = CodecIdle

RematchNext ==
    \E p \in Procs :
        \/ handle_start_game(p)
        \/ receive_messages(p)
        \/ draw_card(p)
        \/ handle_draw_card(p)
        \/ handle_card_click(p)
        \/ handle_play_card(p)
        \/ handle_wild(p)
        \/ wild_handle_action(p)
        \/ handle_wild_color(p)
        \/ shuffle_discard_pile(p)
        \/ handle_win(p)
        \/ win_play_again(p)
        \/ handle_restart_game(p)

RematchSpec == RematchInit /\ [][RematchNext]_vars

\* A rematch in a room of three.  The deck of the host: the first seat holds
\* four Red number cards and a Wild, the second seat five Red number cards,
\* the third seat three Red number cards, the Red Skip and a Yellow One; the
\* first discard card is the second Red Three.
TrioDeckOrder ==
    <<0, 1, 2, 3, 104,  4, 5, 6, 8, 9,  52, 53, 54, 10, 14,  15, 16, 55,
      17, 18, 19, 21, 22, 26, 27, 28, 29, 30, 31, 32, 34, 35, 39>>

\* The cards played in that game, in order: four rounds of the three seats,
\* the third seat ending the fourth with its Skip card, then the last card of
\* the second seat.
TrioPlayed == <<0, 4, 52,  1, 5, 53,  2, 6, 54,  3, 8, 10,  9>>

\* The peers of the room of three once the host has pressed Start with the
\* seating order host, second, third and the others have applied its Start
\* packet.
TrioStarted ==
    LET player_order == <<Pid(Host), Pid(Host + 1), Pid(Host + 2)>>
        host == Resources(Host, Procs, load_from(TrioDeckOrder))
        seated == [host EXCEPT
                      !.opponents = LoadOpponents(host, Pid(Host), player_order),
                      !.order = player_order,
                      !.current_player = Some(player_order[1])]
    IN  [p \in Procs |->
            IF p = Host THEN initialize_game_start(seated, Pid(Host))
            ELSE ReceivePacket(Resources(p, Procs, StartupDeck(p)), Pid(p),
                               Pid(Host), StartPacket(FALSE, player_order, host.deck),
                               "release").s]

TrioInit ==
    /\ room = Procs
    /\ peers = RematchPlays(TrioStarted, TrioPlayed)
    /\ socket = [c \in Channels |-> <<>>]
    /\ moves = 0
    /\ codec = CodecIdle

TrioSpec == TrioInit /\ [][RematchNext]_vars

(***************************************************************************)
(* A game of two dealt from a deck that earlier games of the host left     *)
(* short: after the dealing one card is left to draw.  The behaviours      *)
(* start right after the Start packet is applied, or four plays later.     *)
(***************************************************************************)
\* The deck of the host when it started the game, twelve cards: the hand of
\* the first seat (two Red DrawTwo, a wild card), the hand of the second seat
\* (five Skip cards), and two cards the dealing throws away.  The dealing
\* leaves the first card to draw and puts the second (Red Zero) on the
\* discard pile; both also lie in the hand of the first seat.
EndgameDeckOrder == <<64, 0, 12, 104, 2,  10, 23, 36, 49, 62,  3, 4>>

\* The cards played before the first state, in order: none, or the Red
\* DrawTwo of the first seat and three Skip cards of the second seat.
EndgamePlayed == {<<>>, <<12, 10, 23, 36>>}

EndgameStarted(player_order) == RematchStartedFrom(EndgameDeckOrder, player_order)

\* shuffle_discard_pile on every peer whose deck is empty under a discard
\* pile of two cards: the one card taken back is the whole deck, in the only
\* order a shuffle can give it.
EndgameReclaim(st) ==
    [p \in DOMAIN st |->
        IF st[p].deck = <<>> /\ Len(st[p].discard_pile) = 2
        THEN Reclaimed(st[p]) ELSE st[p]]

RECURSIVE EndgamePlays(_, _)
EndgamePlays(st, bytes) ==
    IF bytes = <<>> THEN st
    ELSE EndgamePlays(EndgameReclaim(RematchPlay(st, bytes[1])), Tail(bytes))

EndgameInit ==
    /\ room = {Host, Host + 1}
    /\ \E player_order \in {<<Pid(Host), Pid(Host + 1)>>, <<Pid(Host + 1), Pid(Host)>>},
          played \in EndgamePlayed :
          LET st == EndgamePlays(EndgameStarted(player_order), played)
          IN  peers = [p \in Procs |->
                          IF p \in DOMAIN st THEN st[p]
                          ELSE Resources(p, room, StartupDeck(p))]
    /\ socket = [c \in Channels |-> <<>>]
    /\ moves = 0
    /\ codec = CodecIdle

EndgameNext ==
    \E p \in Procs :
        \/ handle_start_game(p)
        \/ receive_messages(p)
        \/ draw_card(p)
        \/ handle_draw_card(p)
        \/ handle_card_click(p)
        \/ handle_play_card(p)
        \/ handle_wild(p)
        \/ wild_handle_action(p)
        \/ handle_wild_color(p)
        \/ shuffle_discard_pile(p)
        \/ handle_win(p)
        \/ win_play_again(p)
        \/ handle_restart_game(p)

EndgameSpec == EndgameInit /\ [][EndgameNext]_vars

(***************************************************************************)
(* Leaving a game and starting another.  The host has dealt from the deck  *)
(* its startup made; both peers may go back to the menu in the middle of   *)
(* the game, open the room again and start a game with the Start button.   *)
(***************************************************************************)
\* The deck of the host at startup, one shuffle of Deck::new(): the first
\* seat is dealt two Blue Skip, two Blue Reverse and a Blue DrawTwo, the
\* first discard card is a Blue Three.
MenuDeck == RotateLeft(DeckNew, 90)

\* The Name packet a process sends to a peer that connects.
NamePacket(p) == <<SocketEventIntoU8("Name")>> \o Username(p)

\* game_ui/board.rs handle_menu_action, ButtonAction::BackToMenu: the screen
\* goes back to the menu and, on entering ServerState::None, close_socket
\* removes the socket, and with it what was in flight from and to the
\* process.  No other resource is written.  The peers left in the room see
\* the process disconnect and drop its name.
handle_menu_action(p) ==
    /\ Running(p) /\ peers[p].screen_state = "Game" /\ MouseReleased(p)
    /\ peers' = [q \in Procs |->
          IF q = p THEN [peers[p] EXCEPT !.screen_state = "Menu"]
          ELSE IF q \in room
          THEN [peers[q] EXCEPT !.peer_names =
                   [pid \in DOMAIN peers[q].peer_names \ {Pid(p)} |->
                       peers[q].peer_names[pid]]]
          ELSE peers[q]]
    /\ socket' = [c \in Channels |-> IF p \in {c[1], c[2]} THEN <<>> ELSE socket[c]]
    /\ room' = room \ {p}
    /\ moves' = moves + 1
    /\ UNCHANGED codec

\* menu/lobby.rs setup and start_socket, entered from the main menu with
\* Host (the host opens a room, once the room before is deserted) or from
\* the join menu with the code the host shows: the process gets a socket,
\* and each side sends its Name packet to the peer it sees connect.  The id
\* of the new socket is written Pid(p) like that of the socket before.
lobby_setup(p) ==
    /\ p \notin room /\ ~peers[p].crashed
    /\ peers[p].screen_state = "Menu"
    /\ IF p = Host THEN room = {} ELSE Host \in room
    /\ socket' = [c \in Channels |->
          IF c[1] = p /\ c[2] \in room THEN <<NamePacket(p)>>
          ELSE IF c[2] = p /\ c[1] \in room THEN <<NamePacket(c[1])>>
          ELSE socket[c]]
    /\ room' = room \cup {p}
    /\ UNCHANGED <<peers, moves, codec>>

\* The cards the first seat has played before the story begins: a Blue Skip
\* on the Blue Three, then a Blue Reverse.
MenuPlayed == <<CardIntoU8(MenuDeck[1]), CardIntoU8(MenuDeck[3])>>

\* A game of two is under way: the host has dealt from MenuDeck, the first
\* seat has played MenuPlayed and every packet has been applied.
MenuInit ==
    /\ room = {Host, Host + 1}
    /\ \E player_order \in {<<Pid(Host), Pid(Host + 1)>>, <<Pid(Host + 1), Pid(Host)>>} :
          LET st == RematchPlays(RematchStartedFrom(get_card_order(MenuDeck), player_order),
                                 MenuPlayed)
          IN  peers = [p \in Procs |->
                          IF p \in DOMAIN st THEN st[p]
                          ELSE Resources(p, room, StartupDeck(p))]
    /\ socket = [c \in Channels |-> <<>>]
    /\ moves = Len(MenuPlayed)
    /\ codec = CodecIdle

\* The deck of a hundred cards does not run out within MaxMoves, so
\* shuffle_discard_pile has nothing to do here.
MenuNext ==
    \E p \in Procs :
        \/ lobby_start(p)
        \/ handle_start_game(p)
        \/ receive_messages(p)
        \/ draw_card(p)
        \/ handle_draw_card(p)
        \/ handle_card_click(p)
        \/ handle_play_card(p)
        \/ handle_wild(p)
        \/ wild_handle_action(p)
        \/ handle_wild_color(p)
        \/ handle_menu_action(p)
        \/ lobby_setup(p)

MenuSpec == MenuInit /\ [][MenuNext]_vars

(***************************************************************************)
(* Games of two on decks that put wild cards where the dealing takes the   *)
(* first discard card from.  The systems are those of Spec.                *)
(***************************************************************************)
\* Decks of thirteen cards of the host: the ten cards from the back are
\* dropped by the dealing and the first discard card is the third card, then
\* the second if the third is wild.  The first deck has wild cards at both
\* places, the second at the third place only, the third has none.
DealDeckOrders ==
    {<<1, 104, 105, 2, 3, 14, 15, 16, 17, 18, 4, 5, 6>>,
     <<1, 2, 104, 3, 4, 14, 15, 16, 17, 18, 5, 6, 8>>,
     <<1, 2, 10, 11, 4, 14, 15, 9, 62, 22, 16, 17, 18>>}

DealInit ==
    /\ room = {Host, Host + 1}
    /\ \E o \in DealDeckOrders :
          peers = [p \in Procs |->
                      Resources(p, room, IF p = Host THEN load_from(o) ELSE StartupDeck(p))]
    /\ socket = [c \in Channels |-> <<>>]
    /\ moves = 0
    /\ codec = CodecIdle

DealSpec == DealInit /\ [][Next]_vars

(***************************************************************************)
(* The codec, the deck and the turn state on their own: one call per step. *)
(***************************************************************************)
\* The Card values the codec is given: every color, value and copy of a
\* regular card, and wild cards of every value.
CodecCards ==
    {Card(CardColors[c], CardValues[v], it) : c \in 1..4, v \in 1..13, it \in 1..2}
    \cup {Card("Wild", CardValues[v], it) : v \in 1..13, it \in 0..3}

\* Cards of the longest deck handed to Deck::draw on its own.
MaxPile == 4

\* The decks handed to Deck::draw: the empty deck and decks of up to MaxPile
\* cards.  A wild card lies in it twice, as in a deck that took a discard
\* pile back (shuffle_discard_pile uncolors the colored copy of a wild card).
DrawDecks ==
    LET pile == <<Card("Wild", "Seven", 0), Card("Red", "Skip", 1),
                  Card("Wild", "Seven", 0), Card("Blue", "DrawTwo", 2)>>
    IN  {SubSeq(pile, 1, k) : k \in 0..MaxPile}

\* The counts (i32) handed to Deck::draw: negative, zero, up to one more than
\* the longest deck.
DrawCounts == (0 - 1)..(MaxPile + 1)

\* The seating orders GameInfo holds: no order before a game, and the peers
\* of a room in any order, each once.
SeatOrders ==
    {o \in UNION {[1..n -> {Pid(q) : q \in Procs}] : n \in 0..Cardinality(Procs)} :
        NoDuplicates(o)}

CodecInputs ==
    {[stage |-> "byte", byte |-> b] : b \in Bytes}
    \cup {[stage |-> "card", card |-> c] : c \in CodecCards}
    \cup {[stage |-> "start"]}
    \cup {[stage |-> "pile", cards |-> d, n |-> n] : d \in DrawDecks, n \in DrawCounts}
    \cup UNION {{[stage |-> "seats", order |-> o, current_player |-> c, direction |-> d] :
                     c \in {None} \cup {Some(x) : x \in Range(o)},
                     d \in {"Clockwise", "CounterClockwise"}} : o \in SeatOrders}

\* Processes at the main menu, in no room.
CodecInit ==
    /\ codec \in CodecInputs
    /\ room = {}
    /\ peers = [p \in Procs |-> Resources(p, {}, StartupDeck(p))]
    /\ socket = [c \in Channels |-> <<>>]
    /\ moves = 0

\* `let byte: u8 = card.into()`
CodecEncode ==
    /\ codec.stage = "card"
    /\ codec' = [stage |-> "encoded", card |-> codec.card, byte |-> CardIntoU8(codec.card)]
    /\ UNCHANGED gameVars

\* `Card::from(byte)` of an encoded card
CodecRedecode ==
    /\ codec.stage = "encoded"
    /\ codec' = [stage |-> "redecoded", card |-> codec.card, byte |-> codec.byte,
                 back |-> CardFromU8(codec.byte)]
    /\ UNCHANGED gameVars

\* `Card::from(byte)`
CodecDecode ==
    /\ codec.stage = "byte"
    /\ codec' = [stage |-> "decoded", byte |-> codec.byte, card |-> CardFromU8(codec.byte)]
    /\ UNCHANGED gameVars

\* `card.into()` of a decoded byte
CodecReencode ==
    /\ codec.stage = "decoded"
    /\ codec' = [stage |-> "reencoded", byte |-> codec.byte, card |-> codec.card,
                 back |-> CardIntoU8(codec.card)]
    /\ UNCHANGED gameVars

\* `Deck::new()`
CodecDeckNew ==
    /\ codec.stage = "start"
    /\ codec' = [stage |-> "deck", cards |-> DeckNew]
    /\ UNCHANGED gameVars

\* `deck.shuffle()`
CodecShuffle ==
    /\ codec.stage = "deck"
    /\ \E shuffled \in Shuffles(codec.cards) :
          codec' = [stage |-> "shuffled", cards |-> shuffled]
    /\ UNCHANGED gameVars

\* `deck.get_card_order()`
CodecOrder ==
    /\ codec.stage = "shuffled"
    /\ codec' = [stage |-> "order", cards |-> codec.cards,
                 bytes |-> get_card_order(codec.cards)]
    /\ UNCHANGED gameVars

\* `deck.load_from(&bytes)`
CodecLoad ==
    /\ codec.stage = "order"
    /\ codec' = [stage |-> "loaded", cards |-> codec.cards, bytes |-> codec.bytes,
                 loaded |-> load_from(codec.bytes)]
    /\ UNCHANGED gameVars

\* `let cards = deck.draw(n)`
CodecDraw ==
    /\ codec.stage = "pile"
    /\ codec' = [stage |-> "drawn", cards |-> codec.cards, n |-> codec.n,
                 taken |-> DrawCards(codec.cards, codec.n),
                 rest |-> DrawRest(codec.cards, codec.n)]
    /\ UNCHANGED gameVars

\* `game_info.advance_turn()` with the current player unset or seated
CodecAdvance ==
    /\ codec.stage = "seats"
    /\ LET s == [Resources(Host, {}, <<>>) EXCEPT
                    !.order = codec.order,
                    !.current_player = codec.current_player,
                    !.direction = codec.direction]
       IN  codec' = [stage |-> "advanced", order |-> codec.order,
                     current_player |-> codec.current_player,
                     direction |-> codec.direction,
                     after |-> advance_turn(s),
                     returned |-> advance_turn_returned(s)]
    /\ UNCHANGED gameVars

CodecNext ==
    \/ CodecDraw
    \/ CodecAdvance
    \/ CodecEncode
    \/ CodecRedecode
    \/ CodecDecode
    \/ CodecReencode
    \/ CodecDeckNew
    \/ CodecShuffle
    \/ CodecOrder
    \/ CodecLoad

CodecSpec == CodecInit /\ [][CodecNext]_vars

(***************************************************************************)
(* Properties.                                                             *)
(***************************************************************************)
Alive == {p \in room : ~peers[p].crashed}

TopDiscard(s) == IF s.discard_pile = <<>> THEN None ELSE Some(Top(s.discard_pile))

IsPrefix(a, b) == Len(a) <= Len(b) /\ a = SubSeq(b, 1, Len(a))

\* Every process of the room runs, every packet sent has been received and
\* every local event handled.
AllApplied ==
    /\ Alive = room
    /\ \A c \in Channels : socket[c] = <<>>
    /\ \A p \in room : peers[p].events = <<>>

AllInGame == \A p \in room : peers[p].screen_state = "Game"

ReclaimEnabled(p) == peers[p].deck = <<>> /\ Len(peers[p].discard_pile) > 1

\* The packets process p put on its connection to q in this step.
NewPackets(p, q) ==
    IF Len(socket'[<<p, q>>]) > Len(socket[<<p, q>>])
    THEN SubSeq(socket'[<<p, q>>], Len(socket[<<p, q>>]) + 1, Len(socket'[<<p, q>>]))
    ELSE <<>>

\* The packets process p took off its connection from q in this step.
TakenPackets(q, p) ==
    IF Len(socket'[<<q, p>>]) < Len(socket[<<q, p>>])
    THEN SubSeq(socket[<<q, p>>], 1, Len(socket[<<q, p>>]) - Len(socket'[<<q, p>>]))
    ELSE <<>>

IsStartPacket(packet) ==
    /\ Len(packet) >= 2
    /\ packet[1] \in {SocketEventIntoU8("Start"), SocketEventIntoU8("Restart")}

\* C1: once every sent message is delivered and applied, all peers hold the
\* same current_player, the same direction and the same top discard card.
C1_Convergence ==
    AllApplied =>
        \A p, q \in room :
            /\ peers[p].current_player = peers[q].current_player
            /\ peers[p].direction = peers[q].direction
            /\ TopDiscard(peers[p]) = TopDiscard(peers[q])

\* C2: in every reachable state at most one peer's local view has
\* current_player equal to that peer's own id.
C2_SingleTurn ==
    Cardinality({p \in Alive : peers[p].current_player = Some(Pid(p))}) <= 1

\* The guard the specification states for a local draw.
C3_DrawAllowed(p) ==
    /\ peers[p].current_player = Some(Pid(p))
    /\ peers[p].discard_pile # <<>>
    /\ Top(peers[p].discard_pile).color # "Wild"
    /\ peers[p].deck # <<>>

\* The guard the specification states for a local play of card c.
C3_PlayAllowed(p, c) ==
    /\ peers[p].current_player = Some(Pid(p))
    /\ c \in Range(peers[p].main_player)
    /\ peers[p].discard_pile # <<>>
    /\ LET top == Top(peers[p].discard_pile)
       IN  /\ c.color = top.color \/ c.value = top.value \/ c.color = "Wild"
           /\ top.color # "Wild"

\* A step of handle_card_click of process p on the hand card c.
C3_ClickOn(p, c) ==
    /\ InGame(p) /\ MouseReleased(p)
    /\ c \in Range(peers[p].main_player)
    /\ peers' = [peers EXCEPT ![p] = CardClick(@, Pid(p), c)]
    /\ UNCHANGED <<socket, room, codec>>

\* C3: a local draw or play changes state only when its guard holds in the
\* state it is taken from (own turn, top discard not an uncolored Wild, deck
\* non-empty for a draw; own turn, card in hand, can_play_on for a play); a
\* DrawCard or PlayCard event is raised only then, and a Draw or Play(c)
\* packet is sent only for such an event.
C3_GuardedActions ==
    [][\A p \in Procs :
          /\ draw_card(p) => C3_DrawAllowed(p)
          /\ \A c \in Range(peers[p].main_player) : C3_ClickOn(p, c) => C3_PlayAllowed(p, c)
          /\ Len(EventsOf(peers'[p], "DrawCard")) > Len(EventsOf(peers[p], "DrawCard"))
                => C3_DrawAllowed(p)
          /\ Len(EventsOf(peers'[p], "PlayCard")) > Len(EventsOf(peers[p], "PlayCard"))
                => C3_PlayAllowed(p, Top(EventsOf(peers'[p], "PlayCard")).card)
          /\ \A q \in Procs \ {p} : \A i \in 1..Len(NewPackets(p, q)) :
                LET packet == NewPackets(p, q)[i]
                IN  /\ packet[1] = SocketEventIntoU8("Draw")
                        => EventsOf(peers[p], "DrawCard") # <<>>
                    /\ packet[1] = SocketEventIntoU8("Play")
                        => \E j \in 1..Len(EventsOf(peers[p], "PlayCard")) :
                              CardIntoU8(EventsOf(peers[p], "PlayCard")[j].card) = packet[2]
      ]_vars

\* A Draw packet and a Play packet are in flight.
C3_Witness ==
    /\ \E c \in Channels : \E i \in 1..Len(socket[c]) :
          socket[c][i][1] = SocketEventIntoU8("Draw")
    /\ \E c \in Channels : \E i \in 1..Len(socket[c]) :
          socket[c][i][1] = SocketEventIntoU8("Play")

\* C4: whenever every sent message is delivered and applied, and no reclaim
\* of a discard pile is pending, every peer holds the same deck sequence.
C4_SharedDeck ==
    (AllApplied /\ AllInGame /\ \A p \in room : ~ReclaimEnabled(p)) =>
        \A p, q \in room : peers[p].deck = peers[q].deck

\* C5: on a non-host peer the deck changes only by draws removing cards from
\* it or by adopting the deck of a received Start/Restart packet.
C5_OnlyHostShuffles ==
    [][\A p \in Procs \ {Host} :
          peers'[p].deck # peers[p].deck =>
              \/ IsPrefix(peers'[p].deck, peers[p].deck)
              \/ \E q \in Procs \ {p} : \E i \in 1..Len(TakenPackets(q, p)) :
                    /\ IsStartPacket(TakenPackets(q, p)[i])
                    /\ IsPrefix(peers'[p].deck,
                                load_from(PacketDeckBytes(TakenPackets(q, p)[i])))
      ]_vars

WildCards(cards) == SelectSeq(cards, LAMBDA c : c.color = "Wild")

\* C8, as stated: a fresh deck holds exactly 108 pairwise-distinct cards, 4
\* of them wild with iterations 0..=3, encoding to 108 distinct bytes.
C8_Deck108 ==
    codec.stage = "deck" =>
        /\ Len(codec.cards) = 108
        /\ NoDuplicates(codec.cards)
        /\ {c.iteration : c \in Range(WildCards(codec.cards))} = 0..3
        /\ Len(WildCards(codec.cards)) = 4
        /\ Cardinality(Range(get_card_order(codec.cards))) = 108

\* C8, amended: a fresh deck holds exactly 100 pairwise-distinct cards: two
\* copies of each color with each value but Seven, and 4 wild cards of value
\* Seven with iterations 0..=3; they encode to 100 distinct bytes.
C8_Deck100 ==
    codec.stage = "deck" =>
        /\ Len(codec.cards) = 100
        /\ NoDuplicates(codec.cards)
        /\ Range(codec.cards) =
              {Card(CardColors[c], CardValues[v], it) :
                  c \in 1..4, v \in (1..13) \ {8}, it \in 1..2}
              \cup {Card("Wild", "Seven", it) : it \in 0..3}
        /\ Len(WildCards(codec.cards)) = 4
        /\ Cardinality(Range(get_card_order(codec.cards))) = 100

\* Deck::new has run.
C8_Witness == codec.stage = "deck" /\ codec.cards # <<>>

\* C9: a Play packet carrying a byte >= 108 never puts a card on the discard
\* pile: every card of every discard pile is one of the cards of bytes
\* 0..=107 (a wild card may have been given a color).
C9_NoCardPastWild ==
    \A p \in Procs : \A i \in 1..Len(peers[p].discard_pile) :
        \E b \in 0..107 :
            \/ peers[p].discard_pile[i] = CardFromU8(b)
            \/ b >= 104 /\ [peers[p].discard_pile[i] EXCEPT !.color = "Wild"] = CardFromU8(b)

KeepAt(cards, K) ==
    [i \in 1..Cardinality(K) |->
        cards[CHOOSE j \in K : Cardinality({m \in K : m < j}) = i - 1]]

\* C11: draw(n) on a deck of k cards returns exactly min(n, k) cards (none
\* when n <= 0), removes exactly those cards from the deck and keeps the
\* remaining cards in their relative order; on an empty deck it returns
\* nothing and leaves the deck empty.
C11_Draw ==
    codec.stage = "drawn" =>
        LET k == Len(codec.cards)
            want == IF codec.n <= 0 THEN 0 ELSE IF codec.n < k THEN codec.n ELSE k
        IN  /\ Len(codec.taken) = want
            /\ \E D \in SUBSET (1..k) :
                  /\ Cardinality(D) = want
                  /\ codec.rest = KeepAt(codec.cards, (1..k) \ D)
                  /\ \A c \in Range(codec.cards) \cup Range(codec.taken) :
                        Cardinality({i \in D : codec.cards[i] = c})
                            = Cardinality({i \in 1..want : codec.taken[i] = c})
            /\ k = 0 => (codec.taken = <<>> /\ codec.rest = <<>>)

\* Two cards have been drawn from a deck of four, and three asked of a deck
\* of two.
C11_Witness ==
    /\ codec.stage = "drawn"
    /\ \/ codec.n = 2 /\ Len(codec.cards) = 4 /\ Len(codec.taken) = 2
       \/ codec.n = 3 /\ Len(codec.cards) = 2 /\ Len(codec.rest) = 0

\* C12: advance_turn with current_player unset leaves it unset and returns
\* None; with current_player at index i of an order of length n it sets and
\* returns order[(i+1) mod n] under Clockwise and order[(i+n-1) mod n] under
\* CounterClockwise; order and direction are unchanged.
C12_AdvanceTurn ==
    codec.stage = "advanced" =>
        LET n == Len(codec.order)
        IN  /\ codec.after.order = codec.order
            /\ codec.after.direction = codec.direction
            /\ ~codec.after.crashed
            /\ codec.current_player = None =>
                  (codec.after.current_player = None /\ codec.returned = None)
            /\ \A i \in 0..(n - 1) :
                  codec.current_player = Some(codec.order[i + 1]) =>
                      LET next == IF codec.direction = "Clockwise"
                                  THEN codec.order[((i + 1) % n) + 1]
                                  ELSE codec.order[((i + n - 1) % n) + 1]
                      IN  /\ codec.after.current_player = Some(next)
                          /\ codec.returned = Some(next)

\* The turn has wrapped around an order of three: forward from the last seat
\* or backward from the first.
C12_Witness ==
    /\ codec.stage = "advanced" /\ Len(codec.order) = 3
    /\ \/ /\ codec.direction = "Clockwise"
          /\ codec.current_player = Some(codec.order[3])
          /\ codec.returned = Some(codec.order[1])
       \/ /\ codec.direction = "CounterClockwise"
          /\ codec.current_player = Some(codec.order[1])
          /\ codec.returned = Some(codec.order[3])

\* Process p took a Start or Restart packet off a connection in this step.
TookStart(p) ==
    \E q \in Procs \ {p} : \E i \in 1..Len(TakenPackets(q, p)) :
        IsStartPacket(TakenPackets(q, p)[i])

\* C13: on every peer, in every reachable state, current_player is unset or
\* an element of order and order holds no peer id twice; order changes only
\* in a step that applies a Start/Restart (handle_start_game, or
\* receive_messages taking a Start/Restart packet) or resets the state
\* (handle_restart_game), never by Draw, Play, Wild or Name events.
C13_OrderFixed ==
    /\ [](\A p \in Procs :
            /\ \/ peers[p].current_player = None
               \/ \E i \in 1..Len(peers[p].order) :
                     peers[p].current_player = Some(peers[p].order[i])
            /\ NoDuplicates(peers[p].order))
    /\ [][\A p \in Procs :
            peers'[p].order # peers[p].order =>
                \/ handle_start_game(p)
                \/ handle_restart_game(p)
                \/ receive_messages(p) /\ TookStart(p)
         ]_vars

\* Every peer of a room of three is seated and has seen the turn move: the
\* current player is no longer the first of the order.
C13_Witness ==
    /\ Cardinality(room) = 3
    /\ \A p \in room :
          /\ Len(peers[p].order) = 3
          /\ peers[p].current_player # None
          /\ peers[p].current_player # Some(peers[p].order[1])

\* Process p took exactly one packet in this step, from process q.
TookOnly(p, q) ==
    /\ Len(TakenPackets(q, p)) = 1
    /\ \A r \in Procs \ {p, q} : TakenPackets(r, p) = <<>>

IsPlayOf(packet, value) ==
    /\ Len(packet) = 2
    /\ packet[1] = SocketEventIntoU8("Play")
    /\ CardFromU8(packet[2]).value = value

\* The player due after the current one, in the view of process p.
NextPlayer(p) == advance_turn(peers[p]).current_player

\* What the step did on process p for the two cards player b takes.
C14_TwoTaken(p, b) ==
    LET deck == peers[p].deck
        n == Len(deck)
    IN  /\ peers'[p].deck = SubSeq(deck, 1, n - 2)
        /\ IF b = Pid(p)
           THEN peers'[p].main_player \in
                    {peers[p].main_player \o <<deck[n], deck[n - 1]>>,
                     peers[p].main_player \o <<deck[n - 1], deck[n]>>}
           ELSE /\ CountOf(peers[p].opponents, b) # None
                /\ CountOf(peers'[p].opponents, b)
                      = Some(CountOf(peers[p].opponents, b)[1] + 2)

\* C14: when player A plays DrawTwo, B is the next player (B # A) and the
\* deck holds at least two cards, the deck of every peer applying the play
\* (A by its PlayCard event, the others by A's Play packet) shrinks by exactly
\* two; every peer but B counts two more cards for B, and B adds the two
\* cards taken off its deck to its hand.
C14_DrawTwo ==
    [][\A p \in Procs :
          /\ \A q \in Procs \ {p} :
                (/\ TookOnly(p, q)
                 /\ IsPlayOf(TakenPackets(q, p)[1], "DrawTwo")
                 /\ NextPlayer(p) # None /\ NextPlayer(p) # Some(Pid(q))
                 /\ Len(peers[p].deck) >= 2
                 /\ receive_messages(p))
                    => /\ ~peers'[p].crashed
                       /\ C14_TwoTaken(p, NextPlayer(p)[1])
          /\ (/\ Len(EventsOf(peers[p], "PlayCard")) = 1
              /\ EventsOf(peers[p], "PlayCard")[1].card.value = "DrawTwo"
              /\ NextPlayer(p) # None /\ NextPlayer(p) # Some(Pid(p))
              /\ Len(peers[p].deck) >= 2
              /\ handle_play_card(p))
                 => /\ ~peers'[p].crashed
                    /\ C14_TwoTaken(p, NextPlayer(p)[1])
      ]_vars

\* A DrawTwo has been applied by its player and by the player it hits: the
\* one counts seven cards for the other, who holds seven.
C14_Witness ==
    \E a, b \in room :
        /\ a # b
        /\ peers[a].discard_pile # <<>> /\ Top(peers[a].discard_pile).value = "DrawTwo"
        /\ peers[b].discard_pile # <<>> /\ Top(peers[b].discard_pile).value = "DrawTwo"
        /\ Len(peers[b].main_player) = 7
        /\ CountOf(peers[a].opponents, Pid(b)) = Some(7)
        /\ Len(peers[a].main_player) = 4

\* In this step process p applies one play of a card of the given value by
\* process a: its own PlayCard event if p = a, the Play packet of a otherwise.
AppliesPlay(p, a, value) ==
    IF p = a
    THEN /\ Len(EventsOf(peers[p], "PlayCard")) = 1
         /\ EventsOf(peers[p], "PlayCard")[1].card.value = value
         /\ handle_play_card(p)
    ELSE /\ TookOnly(p, a)
         /\ IsPlayOf(TakenPackets(a, p)[1], value)
         /\ receive_messages(p)

\* C15: in a game of two with order [P1, P2], once a play of a DrawTwo card
\* by P1 (then the current player) is applied by a peer, that peer's
\* current_player is P1 again, and the count P1 keeps for P2 has risen by two.
C15_TurnReturns ==
    [][\A p, a \in Procs :
          (/\ Cardinality(room) = 2 /\ {p, a} \subseteq room
           /\ Len(peers[p].order) = 2
           /\ peers[p].order[1] = Pid(a)
           /\ peers[p].current_player = Some(Pid(a))
           /\ AppliesPlay(p, a, "DrawTwo"))
              => /\ peers'[p].current_player = Some(Pid(a))
                 /\ p = a =>
                       CountOf(peers'[p].opponents, peers[p].order[2])
                           = Some(CountOf(peers[p].opponents, peers[p].order[2])[1] + 2)
      ]_vars

\* The hand and the first player a Start/Restart with seating order o and
\* deck order d (as cards) gives the peer of id pid.
C16_DealtTo(s, pid, o, d) ==
    \E k \in 0..(Len(o) - 1) :
        /\ o[k + 1] = pid
        /\ s.main_player = SubSeq(d, 5 * k + 1, 5 * k + 5)
        /\ Len(s.main_player) = 5
        /\ s.order = o
        /\ s.current_player = Some(o[1])

\* C16: once a Start/Restart with seating order o and transmitted deck order
\* d is applied (by the host in handle_start_game, by a receiver taking the
\* packet), the peer seated at index k of o holds exactly the five cards
\* d[5k .. 5k+5) and current_player is o[0].
C16_Dealing ==
    [][\A p \in Procs :
          /\ (EventsOf(peers[p], "StartGame") # <<>> /\ handle_start_game(p)
                  /\ ~peers'[p].crashed) =>
                \A q \in ConnectedPeers(p) :
                    LET packet == Top(socket'[<<p, q>>])
                    IN  /\ IsStartPacket(packet)
                        /\ C16_DealtTo(peers'[p], Pid(p), PacketOrder(packet)[1],
                                       load_from(PacketDeckBytes(packet)))
          /\ \A q \in Procs \ {p} :
                (/\ TookOnly(p, q)
                 /\ IsStartPacket(TakenPackets(q, p)[1])
                 /\ PacketOrder(TakenPackets(q, p)[1]) # None
                 /\ ~peers'[p].crashed) =>
                    LET packet == TakenPackets(q, p)[1]
                    IN  C16_DealtTo(peers'[p], Pid(p), PacketOrder(packet)[1],
                                   load_from(PacketDeckBytes(packet)))
      ]_vars

\* After a Restart both peers of the room hold the hands of their new seats:
\* the host the second slice of the deck it sent, the other peer the first.
C16_Witness ==
    \E q \in room \ {Host} :
        /\ peers[Host].order = <<Pid(q), Pid(Host)>>
        /\ peers[q].order = peers[Host].order
        /\ peers[q].main_player = load_from(SubSeq(RematchDeckOrder, 1, 5))
        /\ peers[Host].main_player = load_from(SubSeq(RematchDeckOrder, 6, 10))
        /\ peers[q].current_player = Some(Pid(q))
        /\ peers[q].discard_pile = <<CardFromU8(RematchDeckOrder[1])>>

\* The top discard card the claim names for n players and deck order d: the
\* card after the dealt hands, or the one after it when that card is wild.
C17_Named(s, n, d) ==
    Len(d) >= 5 * n + 2 =>
        /\ s.discard_pile # <<>>
        /\ Top(s.discard_pile) = IF d[5 * n + 1].color = "Wild"
                                  THEN d[5 * n + 2] ELSE d[5 * n + 1]

\* C17: once a Start with n players and transmitted deck order d is applied,
\* the top discard card is d[5n], the card right after the dealt hands (the
\* 11th card for two players), or d[5n+1] when d[5n] is a Wild.
C17_TopDiscard ==
    [][\A p \in Procs :
          /\ (EventsOf(peers[p], "StartGame") # <<>> /\ handle_start_game(p)
                  /\ ~peers'[p].crashed) =>
                C17_Named(peers'[p], Len(peers'[p].order), peers[p].deck)
          /\ \A q \in Procs \ {p} :
                (/\ TookOnly(p, q)
                 /\ IsStartPacket(TakenPackets(q, p)[1])
                 /\ PacketOrder(TakenPackets(q, p)[1]) # None
                 /\ ~peers'[p].crashed) =>
                    LET packet == TakenPackets(q, p)[1]
                    IN  C17_Named(peers'[p], Len(PacketOrder(packet)[1]),
                                  load_from(PacketDeckBytes(packet)))
      ]_vars

\* The game state of process p is in the next state what it is now.
GameStateKept(p) ==
    /\ peers'[p].deck = peers[p].deck
    /\ peers'[p].main_player = peers[p].main_player
    /\ peers'[p].discard_pile = peers[p].discard_pile
    /\ peers'[p].order = peers[p].order
    /\ peers'[p].current_player = peers[p].current_player
    /\ peers'[p].direction = peers[p].direction
    /\ peers'[p].opponents = peers[p].opponents

\* C18: a packet whose leading byte is not one of 0..=5 is dropped: the
\* receiver's deck, hand, discard pile, turn state, opponent table and name
\* table are unchanged and the process does not abort.
C18_InvalidKindDropped ==
    [][\A p \in Procs : \A q \in Procs \ {p} :
          (/\ TookOnly(p, q)
           /\ TakenPackets(q, p)[1] # <<>>
           /\ TakenPackets(q, p)[1][1] \notin 0..5) =>
              /\ GameStateKept(p)
              /\ peers'[p].peer_names = peers[p].peer_names
              /\ peers'[p].events = peers[p].events
              /\ ~peers'[p].crashed
      ]_vars

\* A peer in a game has reported a packet of an invalid kind and plays on:
\* it holds its hand, its discard pile and its seat.
C18_Witness ==
    \E p \in room :
        /\ "Received invalid event code" \in peers[p].log
        /\ ~peers[p].crashed
        /\ peers[p].screen_state = "Game"
        /\ Len(peers[p].main_player) = 5
        /\ peers[p].discard_pile # <<>>
        /\ peers[p].current_player # None

\* C19: a Start or Restart packet with fewer peer-id bytes than its player
\* count requires is dropped without applying partial state: the receiver's
\* hand, discard pile, turn state (order, current_player, direction), deck
\* and opponent card counts are exactly as before the packet.
C19_NoPartialState ==
    [][\A p \in Procs : \A q \in Procs \ {p} :
          (/\ TookOnly(p, q)
           /\ IsStartPacket(TakenPackets(q, p)[1])
           /\ PacketOrder(TakenPackets(q, p)[1]) = None) =>
              /\ GameStateKept(p)
              /\ ~peers'[p].crashed
      ]_vars

\* C20: no inbound packet, whatever its length and bytes and in whatever
\* local state it arrives, and no local action aborts the process.
C20_NoAbort == \A p \in Procs : ~peers[p].crashed

\* The Win events pending on a process for the player of the given id.
WinsFor(s, id) == SelectSeq(s.events, LAMBDA e : e.type = "Win" /\ e.id = id)

\* Process p raised Win(id) in this step.
RaisedWin(p, id) == Len(WinsFor(peers'[p], id)) > Len(WinsFor(peers[p], id))

\* The packet process p takes from q is the last thing q has done: q has
\* sent nothing after it, has nothing to receive and no event to handle, so
\* the hand q holds is the hand its play left.
LastWord(q, p) ==
    /\ \A c \in Channels :
          /\ (c[1] = q /\ c[2] # p) => socket[c] = <<>>
          /\ c[2] = q => socket[c] = <<>>
    /\ Len(socket[<<q, p>>]) = 1
    /\ EventsOf(peers[q], "PlayCard") = <<>>
    /\ EventsOf(peers[q], "DrawCard") = <<>>

\* C21: a peer q that handles the play of a card raises Win(q) exactly when
\* the play left its hand empty; every other peer, when it applies the Play
\* packet of q, raises Win(q) exactly when the hand of q is empty, and raises
\* Win for no other player.
C21_WinRaised ==
    [][\A p \in Procs :
          /\ (/\ Len(EventsOf(peers[p], "PlayCard")) = 1
              /\ handle_play_card(p)
              /\ ~peers'[p].crashed)
                 => /\ RaisedWin(p, Pid(p)) <=> peers'[p].main_player = <<>>
                    /\ \A r \in Procs \ {p} : ~RaisedWin(p, Pid(r))
          /\ \A q \in Procs \ {p} :
                (/\ TookOnly(p, q)
                 /\ Len(TakenPackets(q, p)[1]) = 2
                 /\ TakenPackets(q, p)[1][1] = SocketEventIntoU8("Play")
                 /\ LastWord(q, p)
                 /\ ~peers'[p].crashed
                 /\ receive_messages(p))
                    => /\ RaisedWin(p, Pid(q)) <=> peers[q].main_player = <<>>
                       /\ \A r \in Procs \ {q} : ~RaisedWin(p, Pid(r))
      ]_vars

\* The state the claim names for a peer that has applied a Restart with
\* seating order o.
C22_Fresh(s, o) ==
    /\ s.order = o
    /\ s.current_player = Some(o[1])
    /\ s.direction = "Clockwise"
    /\ \/ Len(s.discard_pile) = 1 /\ s.discard_pile[1].color # "Wild"
       \/ /\ Len(s.discard_pile) = 2
          /\ s.discard_pile[1].color = "Wild" /\ s.discard_pile[1].value = "Seven"
    /\ \A i \in 1..Len(s.opponents) : s.opponents[i].card_count = 5

\* C22: the host answers Play Again with a StartGame event carrying the old
\* order moved left by one seat, and puts that order in the Restart packet;
\* once the Restart is applied (by the host in handle_start_game, by a
\* receiver taking the packet) the peer holds that order, current_player is
\* its first element, direction is Clockwise, the discard pile holds only the
\* first card(s) of the new game and every opponent is counted five cards.
C22_Restart ==
    [][\A p \in Procs :
          /\ (/\ EventsOf(peers[p], "RestartGame") # <<>>
              /\ peers[p].order # <<>>
              /\ handle_restart_game(p))
                 => LET old == peers[p].order
                        n == Len(old)
                        event == Top(EventsOf(peers'[p], "StartGame"))
                    IN  /\ event.restart
                        /\ Len(event.order) = n
                        /\ \A i \in 1..n : event.order[i] = old[(i % n) + 1]
          /\ (/\ EventsOf(peers[p], "StartGame") # <<>>
              /\ EventsOf(peers[p], "StartGame")[1].restart
              /\ ~peers'[p].crashed
              /\ handle_start_game(p))
                 => LET event == EventsOf(peers[p], "StartGame")[1]
                    IN  /\ \A q \in ConnectedPeers(p) :
                              LET packet == Top(socket'[<<p, q>>])
                              IN  /\ packet[1] = SocketEventIntoU8("Restart")
                                  /\ PacketOrder(packet) = Some(event.order)
                        /\ C22_Fresh(peers'[p], event.order)
          /\ \A q \in Procs \ {p} :
                (/\ TookOnly(p, q)
                 /\ IsStartPacket(TakenPackets(q, p)[1])
                 /\ TakenPackets(q, p)[1][1] = SocketEventIntoU8("Restart")
                 /\ PacketOrder(TakenPackets(q, p)[1]) # None
                 /\ ~peers'[p].crashed
                 /\ receive_messages(p))
                    => C22_Fresh(peers'[p], PacketOrder(TakenPackets(q, p)[1])[1])
      ]_vars

\* The game after a won game has begun on both peers: the winner of the
\* first game, who sat first, now sits last.  The first game was the one
\* that had turned counter-clockwise; its pile of six cards is gone.
C22_Witness ==
    \E q \in room \ {Host} :
        /\ peers[Host].order = <<Pid(Host), Pid(q)>>
        /\ peers[q].order = peers[Host].order
        /\ \A p \in {Host, q} :
              /\ peers[p].discard_pile = <<CardFromU8(RematchTurnedDeckOrder[1])>>
              /\ Len(peers[p].main_player) = 5
              /\ peers[p].current_player = Some(Pid(Host))
              /\ peers[p].direction = "Clockwise"
              /\ peers[p].game_screen_state = "Game"
              /\ \A i \in 1..Len(peers[p].opponents) : peers[p].opponents[i].card_count = 5

\* C23: the deck order carried by every Start and every Restart packet is a
\* complete deck: it holds each card of Deck::new() exactly once, however
\* many cards the games before have drawn or dealt.
C23_FreshDeck ==
    \A c \in Channels : \A i \in 1..Len(socket[c]) :
        LET packet == socket[c][i]
        IN  (/\ packet # <<>>
             /\ packet[1] \in {SocketEventIntoU8("Start"), SocketEventIntoU8("Restart")})
            => LET cards == load_from(PacketDeckBytes(packet))
               IN  /\ Len(cards) = Len(DeckNew)
                   /\ Range(cards) = Range(DeckNew)

\* C24: whenever every sent message has been delivered and applied, the
\* card_count a peer p keeps for an opponent q of its table is the number of
\* cards in q's hand.
C24_Lockstep ==
    AllApplied =>
        \A p, q \in room : \A i \in 1..Len(peers[p].opponents) :
            peers[p].opponents[i].id = Pid(q) =>
                peers[p].opponents[i].card_count = Len(peers[q].main_player)

\* C25: a peer that has left a game for the menu and joined a room again
\* applies a Start packet as a process fresh from startup would: it ends with
\* the same hand, discard pile, current_player and direction (the pile holds
\* only the first card(s) of the new game, the direction is Clockwise).
C25_LeaveDiscards ==
    [][\A p, q \in Procs :
          (/\ p # q
           /\ TookOnly(p, q)
           /\ IsStartPacket(TakenPackets(q, p)[1])
           /\ TakenPackets(q, p)[1][1] = SocketEventIntoU8("Start")
           /\ ~peers'[p].crashed
           /\ receive_messages(p))
              => LET fresh == ReceivePacket(Resources(p, room, StartupDeck(p)), Pid(p),
                                            Pid(q), TakenPackets(q, p)[1], "release").s
                 IN  /\ peers'[p].main_player = fresh.main_player
                     /\ peers'[p].discard_pile = fresh.discard_pile
                     /\ peers'[p].current_player = fresh.current_player
                     /\ peers'[p].direction = fresh.direction
      ]_vars

\* The seat k steps after seat i (counted from 0) of an order of n seats, in
\* the given direction.
SeatFrom(order, i, k, direction) ==
    LET n == Len(order)
    IN  order[((IF direction = "Clockwise" THEN i + k ELSE i + n * k - k) % n) + 1]

\* C26: once a play of a Skip card by the player at seat i of an order of at
\* least three players is applied, by the actor or by a receiver, the
\* current player is the seat two steps from i in the direction of play and
\* the direction is unchanged.
C26_Skip ==
    [][\A p, a \in Procs :
          (/\ Len(peers[p].order) >= 3
           /\ peers[p].current_player = Some(Pid(a))
           /\ Position(peers[p].order, Pid(a)) > 0
           /\ ~peers'[p].crashed
           /\ AppliesPlay(p, a, "Skip"))
              => /\ peers'[p].current_player =
                       Some(SeatFrom(peers[p].order, Position(peers[p].order, Pid(a)) - 1,
                                     2, peers[p].direction))
                 /\ peers'[p].direction = peers[p].direction
                 /\ peers'[p].order = peers[p].order
      ]_vars

\* Order [A, B, C], Clockwise: A has played a Skip card on the first discard
\* card, A itself and a receiver have applied it, and for both it is C's turn.
C26_Witness ==
    \E p, a \in room :
        /\ p # a
        /\ Len(peers[a].main_player) = 4
        /\ \A r \in {p, a} :
              /\ Len(peers[r].order) = 3 /\ peers[r].order[1] = Pid(a)
              /\ Len(peers[r].discard_pile) = 2
              /\ Top(peers[r].discard_pile).value = "Skip"
              /\ peers[r].direction = "Clockwise"
              /\ peers[r].current_player = Some(peers[r].order[3])

\* C27: once a play of a Reverse card by the player at seat i of an order of
\* at least three players is applied, the direction is flipped and the
\* current player is the seat next to i in the new direction, the one that
\* came before i in the old direction.
C27_Reverse ==
    [][\A p, a \in Procs :
          (/\ Len(peers[p].order) >= 3
           /\ peers[p].current_player = Some(Pid(a))
           /\ Position(peers[p].order, Pid(a)) > 0
           /\ ~peers'[p].crashed
           /\ AppliesPlay(p, a, "Reverse"))
              => /\ peers'[p].direction # peers[p].direction
                 /\ peers'[p].direction \in {"Clockwise", "CounterClockwise"}
                 /\ peers'[p].current_player =
                       Some(SeatFrom(peers[p].order, Position(peers[p].order, Pid(a)) - 1,
                                     1, peers'[p].direction))
                 /\ peers'[p].order = peers[p].order
      ]_vars

\* Order [A, B, C], Clockwise: A has played a Reverse card on the first
\* discard card; A and a receiver now play counter-clockwise and for both it
\* is C's turn.
C27_Witness ==
    \E p, a \in room :
        /\ p # a
        /\ Len(peers[a].main_player) = 4
        /\ \A r \in {p, a} :
              /\ Len(peers[r].order) = 3 /\ peers[r].order[1] = Pid(a)
              /\ Len(peers[r].discard_pile) = 2
              /\ Top(peers[r].discard_pile).value = "Reverse"
              /\ peers[r].direction = "CounterClockwise"
              /\ peers[r].current_player = Some(peers[r].order[3])

\* C28: with exactly two players a Reverse card acts like a Skip card: once
\* a peer has applied the play of a Reverse card by its current player, its
\* current player is the one it would have after the play of a Skip card
\* from the same state, the player who played.
C28_ReverseAsSkip ==
    [][\A p, a \in Procs :
          (/\ Len(peers[p].order) = 2
           /\ peers[p].current_player = Some(Pid(a))
           /\ Position(peers[p].order, Pid(a)) > 0
           /\ ~peers'[p].crashed
           /\ AppliesPlay(p, a, "Reverse"))
              => LET skip == [color |-> "Blue", value |-> "Skip", iteration |-> 1]
                     skipped == handle_card_effect(advance_turn(peers[p]), Pid(p), skip,
                                                   Pid(a), "release")
                 IN  /\ peers'[p].current_player = skipped.current_player
                     /\ peers'[p].current_player = Some(Pid(a))
      ]_vars

\* From s to t the turn has gone on by exactly one seat in the direction of
\* play, which is the same in t.
OneSeatOn(s, t) ==
    /\ s.current_player # None
    /\ Position(s.order, s.current_player[1]) > 0
    /\ t.current_player = Some(SeatFrom(s.order, Position(s.order, s.current_player[1]) - 1,
                                        1, s.direction))
    /\ t.direction = s.direction
    /\ t.order = s.order

\* The sequence t is s with exactly the element at place k taken out.
RemovedAt(s, k, t) ==
    /\ Len(t) = Len(s) - 1
    /\ \A i \in 1..Len(t) : t[i] = IF i < k THEN s[i] ELSE s[i + 1]

\* The sequence t is s with exactly one element taken out.
OneRemoved(s, t) ==
    /\ s # <<>>
    /\ \/ RemovedAt(s, Len(s), t)
       \/ \E k \in 1..Len(s) : RemovedAt(s, k, t)

\* C29: a draw moves exactly one card from the deck of the drawing peer to
\* its hand; the peer sends one Draw packet to every peer and advances the
\* turn by one seat.  A receiver of the Draw packet removes exactly one card
\* from its deck, raises the count of the sender by one if the sender is in
\* its Opponent table (and changes no count, without aborting, if not) and
\* advances the turn by one seat.  Direction and discard pile are unchanged.
C29_DrawFrame ==
    [][\A p \in Procs :
          /\ (/\ Len(EventsOf(peers'[p], "DrawCard")) > Len(EventsOf(peers[p], "DrawCard"))
              /\ draw_card(p))
                 => /\ \E k \in 1..Len(peers[p].deck) :
                          /\ peers'[p].main_player = Append(peers[p].main_player, peers[p].deck[k])
                          /\ RemovedAt(peers[p].deck, k, peers'[p].deck)
                    /\ peers'[p].discard_pile = peers[p].discard_pile
                    /\ peers'[p].direction = peers[p].direction
          /\ (/\ Len(EventsOf(peers[p], "DrawCard")) = 1
              /\ peers[p].current_player # None
              /\ handle_draw_card(p))
                 => /\ \A q \in ConnectedPeers(p) :
                          NewPackets(p, q) = <<<<SocketEventIntoU8("Draw")>>>>
                    /\ OneSeatOn(peers[p], peers'[p])
                    /\ peers'[p].deck = peers[p].deck
                    /\ peers'[p].main_player = peers[p].main_player
                    /\ peers'[p].discard_pile = peers[p].discard_pile
          /\ \A q \in Procs \ {p} :
                (/\ TookOnly(p, q)
                 /\ TakenPackets(q, p)[1] = <<SocketEventIntoU8("Draw")>>
                 /\ peers[p].current_player # None
                 /\ receive_messages(p))
                    => /\ ~peers'[p].crashed
                       /\ OneRemoved(peers[p].deck, peers'[p].deck)
                       /\ Len(peers'[p].opponents) = Len(peers[p].opponents)
                       /\ \A i \in 1..Len(peers[p].opponents) :
                             /\ peers'[p].opponents[i].id = peers[p].opponents[i].id
                             /\ peers'[p].opponents[i].card_count =
                                   IF i = Position([j \in 1..Len(peers[p].opponents) |->
                                                       peers[p].opponents[j].id], Pid(q))
                                   THEN peers[p].opponents[i].card_count + 1
                                   ELSE peers[p].opponents[i].card_count
                       /\ OneSeatOn(peers[p], peers'[p])
                       /\ peers'[p].discard_pile = peers[p].discard_pile
                       /\ peers'[p].main_player = peers[p].main_player
      ]_vars

\* The number cards, Zero to Nine of a colour.
IsNumber(card) ==
    /\ card.color # "Wild"
    /\ card.value \in {"Zero", "One", "Two", "Three", "Four", "Five", "Six", "Seven",
                       "Eight", "Nine"}

SameBesidesPile(s, t) ==
    /\ t.deck = s.deck
    /\ t.main_player = s.main_player
    /\ t.current_player = s.current_player
    /\ t.direction = s.direction
    /\ t.order = s.order
    /\ t.opponents = s.opponents

\* C31: a Wild colour choice, on the peer that chooses and on every peer
\* that receives it, pushes on the discard pile one copy of the top card
\* with the chosen colour: the pile grows by one, the cards below (the
\* uncoloured wild card among them) stay, and deck, hands and turn state are
\* unchanged.
C31_WildFrame ==
    [][\A p \in Procs :
          /\ (/\ peers[p].game_screen_state = "WildColor"
              /\ peers'[p] # peers[p]
              /\ wild_handle_action(p))
                 => /\ peers[p].discard_pile # <<>>
                    /\ \E i \in 1..Len(CardColors) :
                          /\ peers'[p].discard_pile =
                                Append(peers[p].discard_pile,
                                       [Top(peers[p].discard_pile) EXCEPT !.color = CardColors[i]])
                          /\ Top(EventsOf(peers'[p], "WildColor")).color = CardColors[i]
                    /\ SameBesidesPile(peers[p], peers'[p])
          /\ \A q \in Procs \ {p} :
                (/\ TookOnly(p, q)
                 /\ Len(TakenPackets(q, p)[1]) = 2
                 /\ TakenPackets(q, p)[1][1] = SocketEventIntoU8("Wild")
                 /\ TakenPackets(q, p)[1][2] \in {CardColorIntoU8(CardColors[i]) :
                                                     i \in 1..Len(CardColors)}
                 /\ receive_messages(p))
                    => /\ ~peers'[p].crashed
                       /\ peers[p].discard_pile # <<>>
                       /\ peers'[p].discard_pile =
                             Append(peers[p].discard_pile,
                                    [Top(peers[p].discard_pile) EXCEPT
                                        !.color = CardColorFromU8(TakenPackets(q, p)[1][2])])
                       /\ SameBesidesPile(peers[p], peers'[p])
      ]_vars

\* A wild card played on the first discard card has been given a colour,
\* and the player and a receiver both hold the pile of three: the first
\* card, the uncoloured wild card and its coloured copy.
C31_Witness ==
    \E p, q \in room :
        /\ p # q
        /\ Len(peers[q].main_player) = 4
        /\ peers[q].game_screen_state = "Game"
        /\ peers[p].discard_pile = peers[q].discard_pile
        /\ Len(peers[q].discard_pile) = 3
        /\ peers[q].discard_pile[2].color = "Wild"
        /\ peers[q].discard_pile[3].color # "Wild"
        /\ peers[q].discard_pile[3] =
              [peers[q].discard_pile[2] EXCEPT !.color = peers[q].discard_pile[3].color]

\* In this step process p raises a DrawCard or a PlayCard event.
RaisesMove(p) ==
    \/ Len(EventsOf(peers'[p], "DrawCard")) > Len(EventsOf(peers[p], "DrawCard"))
    \/ Len(EventsOf(peers'[p], "PlayCard")) > Len(EventsOf(peers[p], "PlayCard"))

Occurrences(s, x) == Cardinality({i \in 1..Len(s) : s[i] = x})

\* A wild card without the colour chosen for it.
Uncoloured(card) == IF card.value = "Seven" THEN [card EXCEPT !.color = "Wild"] ELSE card

\* C33: a reclaim happens only when the deck is empty and the discard pile
\* holds at least two cards; it moves every discard card but the top one
\* into the deck, wild cards without their chosen colour, and leaves the top
\* card as the only discard card.  With a pile of 0 or 1 cards there is no
\* reclaim.
C33_Reclaim ==
    [][\A p \in Procs :
          shuffle_discard_pile(p)
             => LET pile == peers[p].discard_pile
                    moved == [i \in 1..(Len(pile) - 1) |-> Uncoloured(pile[i])]
                IN  /\ peers[p].deck = <<>>
                    /\ Len(pile) >= 2
                    /\ peers'[p].discard_pile = <<Top(pile)>>
                    /\ Len(peers'[p].deck) = Len(pile) - 1
                    /\ \A c \in Range(moved) \cup Range(peers'[p].deck) :
                          Occurrences(peers'[p].deck, c) = Occurrences(moved, c)
                    /\ peers'[p].main_player = peers[p].main_player
      ]_vars

\* A peer has reclaimed a pile with a coloured wild card under the top card:
\* the card is back in its deck without the colour.
C33_Witness ==
    \E p \in room :
        /\ Len(peers[p].discard_pile) = 1
        /\ \E i \in 1..Len(peers[p].deck) :
              peers[p].deck[i].color = "Wild" /\ peers[p].deck[i].value = "Seven"
        /\ Occurrences(peers[p].deck, [color |-> "Wild", value |-> "Seven", iteration |-> 0]) = 2

\* The ids of the Opponent table of s, in its order.
OpponentIds(s) == [i \in 1..Len(s.opponents) |-> s.opponents[i].id]

\* The Opponent table of p has exactly one entry for each peer id of its
\* order other than its own, and no entry for any other id.
OneEntryPerSeat(p) ==
    /\ NoDuplicates(OpponentIds(peers[p]))
    /\ Range(OpponentIds(peers[p])) = Range(peers[p].order) \ {Pid(p)}

DealtCards(cards, n) ==
    {cards[i] : i \in 1..(IF 5 * n < Len(cards) THEN 5 * n ELSE Len(cards))}

\* C35: after a Start or Restart is applied, by the host in handle_start_game
\* or by a receiver of the packet, no card dealt into a player's hand is
\* still in the deck of that peer.
C35_DealtLeaveDeck ==
    [][\A p \in Procs :
          /\ (/\ EventsOf(peers[p], "StartGame") # <<>>
              /\ ~peers'[p].crashed
              /\ handle_start_game(p))
                 => DealtCards(peers[p].deck, Len(EventsOf(peers[p], "StartGame")[1].order))
                        \cap Range(peers'[p].deck) = {}
          /\ \A q \in Procs \ {p} :
                (/\ TookOnly(p, q)
                 /\ IsStartPacket(TakenPackets(q, p)[1])
                 /\ PacketOrder(TakenPackets(q, p)[1]) # None
                 /\ ~peers'[p].crashed
                 /\ receive_messages(p))
                    => DealtCards(load_from(PacketDeckBytes(TakenPackets(q, p)[1])),
                                  Len(PacketOrder(TakenPackets(q, p)[1])[1]))
                           \cap Range(peers'[p].deck) = {}
      ]_vars

\* C36: after a Start or Restart has been applied, by the host in
\* handle_start_game or by a receiver of the packet, the top discard card is
\* not an uncoloured wild card, whatever the deck order.
C36_TopNotWild ==
    [][\A p \in Procs :
          /\ (/\ EventsOf(peers[p], "StartGame") # <<>>
              /\ ~peers'[p].crashed
              /\ handle_start_game(p))
                 => /\ peers'[p].discard_pile # <<>>
                    /\ Top(peers'[p].discard_pile).color # "Wild"
          /\ \A q \in Procs \ {p} :
                (/\ TookOnly(p, q)
                 /\ IsStartPacket(TakenPackets(q, p)[1])
                 /\ PacketOrder(TakenPackets(q, p)[1]) # None
                 /\ ~peers'[p].crashed
                 /\ receive_messages(p))
                    => /\ peers'[p].discard_pile # <<>>
                       /\ Top(peers'[p].discard_pile).color # "Wild"
      ]_vars

\* C37: the deck of a peer never holds two equal cards, and no wild card
\* (told by its iteration) is both in the deck and on the discard pile.
C37_CardsConserved ==
    \A p \in room :
        ~peers[p].crashed =>
            /\ NoDuplicates(peers[p].deck)
            /\ \A i \in 1..Len(peers[p].discard_pile) :
                  peers[p].discard_pile[i].value = "Seven"
                     => Uncoloured(peers[p].discard_pile[i]) \notin Range(peers[p].deck)

\* C38: when a peer applies a Play packet of an opponent of its table, the
\* count it keeps for that opponent is at least 1, so the count is never
\* taken below zero.
C38_NoUnderflow ==
    [][\A p, q \in Procs :
          (/\ p # q
           /\ TookOnly(p, q)
           /\ Len(TakenPackets(q, p)[1]) = 2
           /\ TakenPackets(q, p)[1][1] = SocketEventIntoU8("Play")
           /\ CountOf(peers[p].opponents, Pid(q)) # None
           /\ receive_messages(p))
              => CountOf(peers[p].opponents, Pid(q))[1] >= 1
      ]_vars

\* The resources after every packet of a batch has been applied in arrival
\* order, whatever was done with the packets before it; only a panic ends
\* the pass.
RECURSIVE ApplyEach(_, _, _, _)
ApplyEach(s, own_pid, batch, build) ==
    IF batch = <<>> THEN s
    ELSE LET r == ReceivePacket(s, own_pid, batch[1].peer, batch[1].packet, build)
         IN  IF r.s.crashed THEN r.s ELSE ApplyEach(r.s, own_pid, Tail(batch), build)

\* A packet receive_messages drops: the empty packet, a packet of no known
\* kind, a Start or Restart packet that ends inside its player order.
DroppedPacket(packet) ==
    \/ packet = <<>>
    \/ SocketEventTryFromU8(packet[1]) = "InvalidByte"
    \/ IsStartPacket(packet) /\ PacketOrder(packet) = None

\* A packet as the senders of the program build it.
ValidPacket(packet) ==
    /\ packet # <<>>
    /\ LET event == SocketEventTryFromU8(packet[1])
       IN  CASE event \in {"Start", "Restart"} ->
                    Len(packet) >= 2 /\ PacketOrder(packet) # None
             [] event = "Draw" -> Len(packet) = 1
             [] event = "Play" -> Len(packet) = 2 /\ packet[2] <= 107
             [] event = "Name" -> TRUE
             [] event = "Wild" ->
                    Len(packet) = 2 /\ CardColorFromU8(packet[2]) # "panic"
             [] OTHER -> FALSE

\* C39: the packets a peer takes in one tick are all applied, in arrival
\* order; a packet that is dropped as undecodable or malformed does not keep
\* the valid packets after it from being applied.  The error log is left
\* out of the comparison.
C39_BatchApplied ==
    [][\A p \in Procs :
          (/\ \E q \in Procs \ {p} : TakenPackets(q, p) # <<>>
           /\ \A q \in Procs \ {p} : \A i \in 1..Len(TakenPackets(q, p)) :
                 \/ DroppedPacket(TakenPackets(q, p)[i])
                 \/ ValidPacket(TakenPackets(q, p)[i])
           /\ receive_messages(p))
              => \E f \in BatchShapes(p), build \in Builds :
                    /\ \A q \in Procs \ {p} :
                          Len(TakenPackets(q, p)) = Cardinality({i \in DOMAIN f : f[i] = q})
                    /\ [peers'[p] EXCEPT !.log = {}] =
                          [ApplyEach(peers[p], Pid(p), Batch(p, f), build) EXCEPT !.log = {}]
      ]_vars

\* Process p can act on its own: the checks of draw_card pass, or those of
\* handle_card_click pass for a card of its hand, or its colour chooser is
\* open.
CanAct(p) ==
    \/ peers[p].game_screen_state = "WildColor"
    \/ /\ InGame(p)
       /\ \/ DrawGuard(peers[p], Pid(p))
          \/ \E i \in 1..Len(peers[p].main_player) :
                PlayGuard(peers[p], Pid(p), peers[p].main_player[i])

\* C40: a started game in which no Win has been raised, no packet or event
\* is pending and no discard pile is due to be reclaimed has a peer that can
\* draw, play a card of its hand or choose the colour of a wild card.
C40_NoDeadlock ==
    (/\ AllApplied
     /\ AllInGame
     /\ \A p \in room : /\ peers[p].current_player # None
                        /\ peers[p].game_screen_state # "Win"
                        /\ ~ReclaimEnabled(p))
        => \E p \in room : CanAct(p)

====
